---- MODULE Spec2Model ----
(***************************************************************************)
(* Callbag operators of the bundle (part_000) as a small-step machine.     *)
(*                                                                         *)
(* A callbag is a function (t, d) => void.  Every call of the bundle is    *)
(* synchronous, so the state of a run is the JavaScript call stack plus    *)
(* the closure variables of every operator instance.  `stack` holds one    *)
(* frame per active call (head = innermost), `st` the closure variables    *)
(* of each node of the pipeline, `trace` the history of the calls that     *)
(* reached the ends of the pipeline (terminal sinks, producers) and of the  *)
(* messages the producers sent.                                            *)
(***************************************************************************)
EXTENDS Integers, Sequences, FiniteSets, TLC

VARIABLES stack, st, trace

vars == <<stack, st, trace>>

(* ------------------------------ bounds --------------------------------- *)

\* longest iterable handed to fromIter
MaxLen == 3
\* iterable items are drawn from 1..MaxVal
MaxVal == 2
\* most DATA one producer sends
MaxData == 3
\* most talkback calls a consumer makes between messages
MaxIdle == 1
\* take(max) is modelled for max in 0..MaxTake
MaxTake == 2
\* most sources handed to merge, concat and combine
MaxSources == 2
\* most DATA one source of merge sends
MaxEmit == 1
\* most DATA one source of combine or share sends
MaxSent == 2
\* most sinks of one share of a listenable source
MaxSinks == 3
\* most sinks of one share of a source that answers pulls
MaxPullers == 2
\* how often the source that scan returns is invoked
MaxRuns == 2
\* fromIter([1 .. L]) is piped through map, filter and take for L in 0..MaxRange
MaxRange == 8

(* --------------------------- protocol tags ----------------------------- *)

START == 0
DATA == 1
END == 2
\* the payload of a call made without a second argument (sink(2), talkback(1))
Undef == -1
\* the payload of an END that carries an error
Err == -2

(* ------------------------- calls and closures -------------------------- *)

\* A callable value: a function closed over node `n`; `p` tells the closures
\* of one node apart (the i of merge's i-th callback, the k-th call of shared).
Callable(n, p) == [node |-> n, port |-> p]

\* a talkback variable that was declared and not assigned yet
NoTb == Callable("undefined", 0)

\* the frame of a call c(t, d); fn names which function of the node c is:
\* "source" (start, sink), "sink" (t, d) or "talkback" (t, d)
Frame(fn, c, t, d) ==
  [node |-> c.node, port |-> c.port, fn |-> fn, t |-> t, d |-> d,
   pc |-> "start", i |-> 0, zs |-> <<>>]

Top == Head(stack)

\* the innermost call is in function fn of a node of kind `kind`, at pc
At(kind, fn, pc) ==
  /\ stack # <<>>
  /\ Top.node \in DOMAIN st
  /\ st[Top.node].kind = kind
  /\ Top.fn = fn
  /\ Top.pc = pc

\* the innermost call returns
Ret == Tail(stack)
\* the innermost call moves on to pc
Goto(pc) == <<[Top EXCEPT !.pc = pc]>> \o Tail(stack)
\* the innermost call calls f and continues at pc when f returns
CallThen(f, pc) == <<f, [Top EXCEPT !.pc = pc]>> \o Tail(stack)
\* the innermost call ends with the call f
TailCall(f) == <<f>> \o Tail(stack)

\* one observed call: node received (t, d) through its function fn
Event(n, fn, t, d) ==
  [node |-> n, fn |-> fn, t |-> t, d |-> IF t = START THEN Undef ELSE d]

(* ------------------------------ forEach -------------------------------- *)

ForEachState(source) ==
  [kind |-> "forEach", source |-> source, called |-> FALSE, talkback |-> NoTb]

ForEachPullsOnlyOnStart(t) == t = START

\* if (t === 1 || t === 0) talkback(1)
ForEachPulls(t) == t = DATA \/ t = START

\* forEach(operation)(source): source(0, (t, d) => ...)
ForEachCall ==
  /\ stack = <<>>
  /\ \E n \in DOMAIN st :
       /\ st[n].kind = "forEach"
       /\ ~st[n].called
       /\ st' = [st EXCEPT ![n].called = TRUE]
       /\ stack' = <<Frame("source", Callable(st[n].source, 0), START, Callable(n, 0))>>
  /\ UNCHANGED trace

\* the callback forEach hands to its source
ForEachSink ==
  /\ At("forEach", "sink", "start")
  /\ LET n == Top.node
         tb == IF Top.t = START THEN Top.d ELSE st[n].talkback
     IN /\ st' = [st EXCEPT ![n].talkback = tb]
        /\ trace' = Append(trace, Event(n, "sink", Top.t, Top.d))
        /\ stack' = IF ForEachPulls(Top.t)
                    THEN TailCall(Frame("talkback", tb, DATA, Undef))
                    ELSE Ret

(* ------------------------------ fromIter ------------------------------- *)

\* res before the first iterator.next(): res && res.done is false
NoRes == [done |-> FALSE, value |-> Undef]

FromIterState(iter) ==
  [kind |-> "fromIter", iter |-> iter, sink |-> NoTb, pos |-> 0,
   inloop |-> FALSE, got1 |-> FALSE, completed |-> FALSE, res |-> NoRes]

IterNextSkipsLast(s) ==
  IF s.pos + 1 < Len(s.iter)
  THEN [done |-> FALSE, value |-> s.iter[s.pos + 1]]
  ELSE [done |-> TRUE, value |-> Undef]

\* iterator.next() of an array iterator that has produced s.pos items
IterNext(s) ==
  IF s.pos < Len(s.iter)
  THEN [done |-> FALSE, value |-> s.iter[s.pos + 1]]
  ELSE [done |-> TRUE, value |-> Undef]

\* fromIter(iter)(0, sink): fresh closure variables, then sink(0, talkback)
FromIterSource ==
  /\ At("fromIter", "source", "start")
  /\ LET n == Top.node
     IN /\ st' = [st EXCEPT ![n] = [FromIterState(st[n].iter) EXCEPT !.sink = Top.d]]
        /\ stack' = TailCall(Frame("sink", Top.d, START, Callable(n, 0)))
  /\ UNCHANGED trace

FromIterLoopsOnEveryPull(s) == ~s.res.done

\* if (!inloop && !(res && res.done)) loop()
FromIterStartsLoop(s) == ~s.inloop /\ ~s.res.done

\* the talkback fromIter hands to its sink
FromIterTalkback ==
  /\ At("fromIter", "talkback", "start")
  /\ LET n == Top.node
         s == st[n]
     IN IF s.completed
        THEN /\ stack' = Ret
             /\ UNCHANGED st
        ELSE IF Top.t = DATA
        THEN IF FromIterStartsLoop(s)
             THEN \* loop(): inloop = true
                  /\ st' = [st EXCEPT ![n].got1 = TRUE, ![n].inloop = TRUE]
                  /\ stack' = Goto("while")
             ELSE /\ st' = [st EXCEPT ![n].got1 = TRUE]
                  /\ stack' = Ret
        ELSE IF Top.t = END
        THEN /\ st' = [st EXCEPT ![n].completed = TRUE]
             /\ stack' = Ret
        ELSE /\ stack' = Ret
             /\ UNCHANGED st
  /\ UNCHANGED trace

\* one test of while (got1 && !completed) and, if it passes, one round of its body
FromIterLoop ==
  /\ At("fromIter", "talkback", "while")
  /\ LET n == Top.node
         s == st[n]
         res == IterNext(s)
     IN IF s.got1 /\ ~s.completed
        THEN /\ st' = [st EXCEPT ![n].got1 = FALSE, ![n].res = res,
                                 ![n].pos = IF res.done THEN @ ELSE @ + 1]
             /\ stack' = IF res.done
                         THEN CallThen(Frame("sink", s.sink, END, Undef), "after")
                         ELSE CallThen(Frame("sink", s.sink, DATA, res.value), "while")
        ELSE /\ stack' = Goto("after")
             /\ UNCHANGED st
  /\ UNCHANGED trace

\* after the loop: inloop = false, and loop() and the talkback return
FromIterLoopExit ==
  /\ At("fromIter", "talkback", "after")
  /\ st' = [st EXCEPT ![Top.node].inloop = FALSE]
  /\ stack' = Ret
  /\ UNCHANGED trace

(* ----------------------- forEach over fromIter ------------------------- *)

Values == 1..MaxVal

RECURSIVE SeqsUpTo(_)
SeqsUpTo(k) ==
  IF k = 0 THEN {<<>>}
  ELSE LET shorter == SeqsUpTo(k - 1)
       IN shorter \cup {Append(s, v) : s \in {x \in shorter : Len(x) = k - 1}, v \in Values}

\* forEach(op)(fromIter(S)) for every S of at most MaxLen items
InitIter ==
  /\ stack = <<>>
  /\ trace = <<>>
  /\ \E S \in SeqsUpTo(MaxLen) :
       st = ("forEach" :> ForEachState("fromIter") @@ "fromIter" :> FromIterState(S))

NextIter ==
  \/ ForEachCall
  \/ ForEachSink
  \/ FromIterSource
  \/ FromIterTalkback
  \/ FromIterLoop
  \/ FromIterLoopExit

SpecIter == InitIter /\ [][NextIter]_vars

(* ------------------- protocol-conforming producers --------------------- *)

\* A source that is not part of the bundle (a timer, an event emitter, an
\* iterator that answers inside the pull).  It sends START when invoked, then
\* DATA, then at most one END, and nothing once it has sent END or has been
\* sent END.  Its k-th DATA carries base + k.  mode.budget bounds its DATA;
\* mode.sync lets it send while it is being called (inside its invocation or
\* inside a PULL) and not only on its own schedule; mode.mayErr lets its END
\* carry an error; mode.log records its calls in trace.  invoked,
\* cancels and endWith remember what it was sent and what it sent.
ProducerState(base, mode) ==
  [kind |-> "producer", base |-> base, mode |-> mode, sink |-> NoTb,
   started |-> FALSE, sent |-> 0, ended |-> FALSE, endWith |-> Undef,
   cancelled |-> FALSE, invoked |-> 0, cancels |-> 0]

Live(s) == s.started /\ ~s.ended /\ ~s.cancelled

\* trace with event e added if node n is recorded
Log(n, e) == IF st[n].mode.log THEN Append(trace, e) ELSE trace

\* the payload of the k-th DATA of producer state s: base + k, or the k-th of
\* mode.items for a source of given items (a source of sources)
Payload(s, k) == IF "items" \in DOMAIN s.mode THEN s.mode.items[k] ELSE s.base + k

\* the messages producer state s may send next
Sendable(s) ==
  (IF s.sent < s.mode.budget THEN {[t |-> DATA, d |-> Payload(s, s.sent + 1)]} ELSE {})
    \cup {[t |-> END, d |-> Undef]}
    \cup (IF s.mode.mayErr THEN {[t |-> END, d |-> Err]} ELSE {})

\* producer state s after it sent m
AfterSend(s, m) ==
  IF m.t = DATA THEN [s EXCEPT !.sent = @ + 1]
  ELSE [s EXCEPT !.ended = TRUE, !.endWith = m.d]

\* producer(0, sink): a fresh instance, which greets with sink(0, talkback)
ProducerSource ==
  /\ At("producer", "source", "start")
  /\ LET n == Top.node
         s == st[n]
         greet == Frame("sink", Top.d, START, Callable(n, 0))
     IN /\ st' = [st EXCEPT ![n] = [s EXCEPT !.sink = Top.d, !.started = TRUE,
                                      !.sent = 0, !.ended = FALSE, !.endWith = Undef,
                                      !.cancelled = FALSE, !.invoked = @ + 1]]
        /\ trace' = Log(n, Event(n, "source", START, Undef))
        /\ stack' = IF s.mode.sync THEN CallThen(greet, "emit") ELSE TailCall(greet)

\* the producer's talkback: END is a cancellation, DATA a pull it may answer now
ProducerTalkback ==
  /\ At("producer", "talkback", "start")
  /\ LET n == Top.node
         s == st[n]
     IN /\ trace' = Log(n, Event(n, "talkback", Top.t, Top.d))
        /\ IF Top.t = END
           THEN /\ st' = [st EXCEPT ![n].cancelled = TRUE, ![n].cancels = @ + 1]
                /\ stack' = Ret
           ELSE /\ stack' = IF s.mode.sync THEN Goto("emit") ELSE Ret
                /\ UNCHANGED st

\* a producer that is being called sends one message, or returns
ProducerEmit ==
  /\ stack # <<>>
  /\ Top.node \in DOMAIN st
  /\ st[Top.node].kind = "producer"
  /\ Top.pc = "emit"
  /\ LET n == Top.node
         s == st[n]
     IN \/ /\ Live(s)
           /\ \E m \in Sendable(s) :
                /\ st' = [st EXCEPT ![n] = AfterSend(s, m)]
                /\ trace' = Log(n, Event(n, "emit", m.t, m.d))
                /\ stack' = IF m.t = DATA
                            THEN CallThen(Frame("sink", s.sink, m.t, m.d), "emit")
                            ELSE TailCall(Frame("sink", s.sink, m.t, m.d))
        \/ /\ stack' = Ret
           /\ UNCHANGED <<st, trace>>

\* the producer's own schedule (a timer, an event) makes it send one message
ProducerTick ==
  /\ stack = <<>>
  /\ \E n \in DOMAIN st :
       /\ st[n].kind = "producer"
       /\ Live(st[n])
       /\ \E m \in Sendable(st[n]) :
            /\ st' = [st EXCEPT ![n] = AfterSend(st[n], m)]
            /\ trace' = Log(n, Event(n, "emit", m.t, m.d))
            /\ stack' = <<Frame("sink", st[n].sink, m.t, m.d)>>

(* ------------------- protocol-conforming consumers --------------------- *)

\* A sink that is not part of the bundle.  It calls its talkback neither
\* before START nor after it received or sent END.  mode.mayPull lets it pull
\* (in answer to START or DATA, or between messages), mode.mayCancel lets it
\* cancel, mode.log records what it receives in trace.  got counts what it
\* received by tag, late whether anything came after an END, last and
\* lastEnd are the payloads of the latest DATA and END.
ConsumerState(source, mode) ==
  [kind |-> "consumer", source |-> source, mode |-> mode, called |-> FALSE,
   talkback |-> NoTb, started |-> FALSE, ended |-> FALSE, cancelled |-> FALSE,
   idle |-> 0, got |-> <<0, 0, 0>>, late |-> FALSE, last |-> Undef,
   lastEnd |-> Undef]

\* the talkback calls a consumer of this mode may make
Answers(mode) ==
  (IF mode.mayPull THEN {DATA} ELSE {}) \cup (IF mode.mayCancel THEN {END} ELSE {})

\* consumer state s after it received (t, d)
AfterReceive(s, t, d) ==
  [s EXCEPT !.talkback = IF t = START THEN d ELSE @,
            !.started = @ \/ t = START,
            !.ended = @ \/ t = END,
            !.got[t + 1] = @ + 1,
            !.late = @ \/ s.got[END + 1] > 0,
            !.last = IF t = DATA THEN d ELSE @,
            !.lastEnd = IF t = END THEN d ELSE @]

ConsumerNames == <<"consumer1", "consumer2", "consumer3", "consumer4">>

\* consumer m comes before consumer n in ConsumerNames
Earlier(m, n) ==
  \E i, j \in DOMAIN ConsumerNames : i < j /\ ConsumerNames[i] = m /\ ConsumerNames[j] = n

\* a consumer subscribes: source(0, sink); the consumers of one source are
\* interchangeable and subscribe in the order of their names
ConsumerCall ==
  /\ stack = <<>>
  /\ \E n \in DOMAIN st :
       /\ st[n].kind = "consumer"
       /\ ~st[n].called
       /\ \A m \in DOMAIN st : Earlier(m, n) => st[m].called
       /\ st' = [st EXCEPT ![n].called = TRUE]
       /\ stack' = <<Frame("source", Callable(st[n].source, 0), START, Callable(n, 0))>>
  /\ UNCHANGED trace

\* the consumer receives (t, d) and answers with at most one talkback call
ConsumerSink ==
  /\ At("consumer", "sink", "start")
  /\ LET n == Top.node
         s == AfterReceive(st[n], Top.t, Top.d)
         mayAnswer == Top.t \in {START, DATA} /\ ~s.cancelled /\ ~s.ended
     IN /\ trace' = Log(n, Event(n, "sink", Top.t, Top.d))
        /\ \/ /\ st' = [st EXCEPT ![n] = s]
              /\ stack' = Ret
           \/ /\ mayAnswer
              /\ \E t \in Answers(s.mode) :
                   /\ st' = [st EXCEPT ![n] = [s EXCEPT !.cancelled = (t = END)]]
                   /\ stack' = TailCall(Frame("talkback", s.talkback, t, Undef))

\* between messages the consumer pulls or cancels
ConsumerIdle ==
  /\ stack = <<>>
  /\ \E n \in DOMAIN st :
       /\ st[n].kind = "consumer"
       /\ st[n].started /\ ~st[n].ended /\ ~st[n].cancelled
       /\ st[n].idle < MaxIdle
       /\ \E t \in Answers(st[n].mode) :
            /\ st' = [st EXCEPT ![n].idle = @ + 1, ![n].cancelled = (t = END)]
            /\ stack' = <<Frame("talkback", st[n].talkback, t, Undef)>>
  /\ UNCHANGED trace

(* -------------------------------- take --------------------------------- *)

TakeState(max, source) ==
  [kind |-> "take", max |-> max, source |-> source, sink |-> NoTb,
   taken |-> 0, sourceTalkback |-> NoTb]

\* take(max)(source)(0, sink)
TakeSource ==
  /\ At("take", "source", "start")
  /\ LET n == Top.node
     IN /\ st' = [st EXCEPT ![n] = [TakeState(st[n].max, st[n].source) EXCEPT !.sink = Top.d]]
        /\ stack' = TailCall(Frame("source", Callable(st[n].source, 0), START, Callable(n, 0)))
  /\ UNCHANGED trace

\* function talkback(t, d) { if (taken < max) sourceTalkback(t, d); }
TakeTalkback ==
  /\ At("take", "talkback", "start")
  /\ LET s == st[Top.node]
     IN stack' = IF s.taken < s.max
                 THEN TailCall(Frame("talkback", s.sourceTalkback, Top.t, Top.d))
                 ELSE Ret
  /\ UNCHANGED <<st, trace>>

\* the callback take hands to its source, up to the call of sink
TakeSink ==
  /\ At("take", "sink", "start")
  /\ LET n == Top.node
         s == st[n]
     IN IF Top.t = START
        THEN /\ st' = [st EXCEPT ![n].sourceTalkback = Top.d]
             /\ stack' = TailCall(Frame("sink", s.sink, START, Callable(n, 0)))
        ELSE IF Top.t = DATA
        THEN IF s.taken < s.max
             THEN /\ st' = [st EXCEPT ![n].taken = @ + 1]
                  /\ stack' = CallThen(Frame("sink", s.sink, DATA, Top.d), "check")
             ELSE /\ stack' = Ret
                  /\ UNCHANGED st
        ELSE /\ stack' = TailCall(Frame("sink", s.sink, Top.t, Top.d))
             /\ UNCHANGED st
  /\ UNCHANGED trace

\* after sink(t, d) returned: if (taken === max) { sink(2); ...
TakeSinkCheck ==
  /\ At("take", "sink", "check")
  /\ LET s == st[Top.node]
     IN stack' = IF s.taken = s.max
                 THEN CallThen(Frame("sink", s.sink, END, Undef), "cancel")
                 ELSE Ret
  /\ UNCHANGED <<st, trace>>

\* ... sourceTalkback(2); }
TakeSinkCancel ==
  /\ At("take", "sink", "cancel")
  /\ stack' = TailCall(Frame("talkback", st[Top.node].sourceTalkback, END, Undef))
  /\ UNCHANGED <<st, trace>>

\* take(max) between a producer and a consumer, for every max up to MaxTake
InitTake ==
  /\ stack = <<>>
  /\ trace = <<>>
  /\ \E max \in 0..MaxTake :
       st = ("consumer" :> ConsumerState("take", [mayPull |-> TRUE, mayCancel |-> TRUE, log |-> TRUE])
             @@ "take" :> TakeState(max, "producer")
             @@ "producer" :> ProducerState(0, [budget |-> MaxData, sync |-> TRUE,
                                                mayErr |-> TRUE, log |-> TRUE]))

NextTake ==
  \/ ConsumerCall
  \/ ConsumerSink
  \/ ConsumerIdle
  \/ TakeSource
  \/ TakeTalkback
  \/ TakeSink
  \/ TakeSinkCheck
  \/ TakeSinkCancel
  \/ ProducerSource
  \/ ProducerTalkback
  \/ ProducerEmit
  \/ ProducerTick

SpecTake == InitTake /\ [][NextTake]_vars

(* -------------------------------- merge -------------------------------- *)

\* sources: the node names of merge's arguments; port p is JavaScript's i = p - 1
MergeState(sources) ==
  [kind |-> "merge", sources |-> sources, sink |-> NoTb,
   sourceTalkbacks |-> [p \in 1..Len(sources) |-> NoTb],
   startCount |-> 0, endCount |-> 0]

MergeGreetsOnEveryStart(startCount) == TRUE

\* if (++startCount === 1) sink(0, talkback), given the incremented counter
MergeGreets(startCount) == startCount = 1

MergeEndsOnFirstEnd(endCount, n) == endCount = 1

\* if (++endCount === n) sink(2), given the incremented counter
MergeEnds(endCount, n) == endCount = n

\* merge(...sources)(0, sink), up to the for loop
MergeSource ==
  /\ At("merge", "source", "start")
  /\ LET n == Top.node
     IN /\ st' = [st EXCEPT ![n] = [MergeState(st[n].sources) EXCEPT !.sink = Top.d]]
        /\ stack' = Goto("for")
  /\ UNCHANGED trace

\* for (let i = 0; i < n; i++) sources[i](0, (t, d) => ...)
MergeSourceFor ==
  /\ At("merge", "source", "for")
  /\ LET n == Top.node
         s == st[n]
         p == Top.i + 1
     IN stack' = IF Top.i < Len(s.sources)
                 THEN <<Frame("source", Callable(s.sources[p], 0), START, Callable(n, p)),
                        [Top EXCEPT !.i = p]>> \o Tail(stack)
                 ELSE Ret
  /\ UNCHANGED <<st, trace>>

\* the callback merge hands to sources[i]
MergeSink ==
  /\ At("merge", "sink", "start")
  /\ LET n == Top.node
         s == st[n]
         p == Top.port
     IN IF Top.t = START
        THEN /\ st' = [st EXCEPT ![n].sourceTalkbacks[p] = Top.d,
                                 ![n].startCount = @ + 1]
             /\ stack' = IF MergeGreets(s.startCount + 1)
                         THEN TailCall(Frame("sink", s.sink, START, Callable(n, 0)))
                         ELSE Ret
        ELSE IF Top.t = END
        THEN /\ st' = [st EXCEPT ![n].sourceTalkbacks[p] = NoTb,
                                 ![n].endCount = @ + 1]
             /\ stack' = IF MergeEnds(s.endCount + 1, Len(s.sources))
                         THEN TailCall(Frame("sink", s.sink, END, Undef))
                         ELSE Ret
        ELSE /\ stack' = TailCall(Frame("sink", s.sink, Top.t, Top.d))
             /\ UNCHANGED st
  /\ UNCHANGED trace

\* const talkback = t => { if (t === 0) return; ...
MergeTalkback ==
  /\ At("merge", "talkback", "start")
  /\ stack' = IF Top.t = START THEN Ret ELSE Goto("for")
  /\ UNCHANGED <<st, trace>>

\* ... for (let i = 0; i < n; i++) sourceTalkbacks[i] && sourceTalkbacks[i](t); }
MergeTalkbackFor ==
  /\ At("merge", "talkback", "for")
  /\ LET s == st[Top.node]
         p == Top.i + 1
         next == [Top EXCEPT !.i = p]
     IN stack' = IF Top.i < Len(s.sources)
                 THEN IF s.sourceTalkbacks[p] # NoTb
                      THEN <<Frame("talkback", s.sourceTalkbacks[p], Top.t, Undef), next>>
                             \o Tail(stack)
                      ELSE <<next>> \o Tail(stack)
                 ELSE Ret
  /\ UNCHANGED <<st, trace>>

ProducerNames == <<"producer1", "producer2", "producer3", "producer4">>
IterNames == <<"fromIter1", "fromIter2", "fromIter3", "fromIter4">>

\* the first k names of a list of names
FirstNames(names, k) == [p \in 1..k |-> names[p]]

\* producers 1..k of one mode: the DATA of producer p are 10 p + 1, 10 p + 2, ...
Producers(k, mode) ==
  [x \in {ProducerNames[p] : p \in 1..k} |->
     ProducerState(10 * (CHOOSE p \in 1..k : ProducerNames[p] = x), mode)]

\* what the sources and the sink of merge may do
MergeProducers == [budget |-> MaxEmit, sync |-> TRUE, mayErr |-> TRUE, log |-> FALSE]
MergeConsumer == [mayPull |-> TRUE, mayCancel |-> TRUE, log |-> FALSE]

\* a consumer on merge(producer1, ..., producerN), for every N up to MaxSources
InitMerge ==
  /\ stack = <<>>
  /\ trace = <<>>
  /\ \E N \in 0..MaxSources :
       st = ("consumer" :> ConsumerState("merge", MergeConsumer)
             @@ "merge" :> MergeState(FirstNames(ProducerNames, N))
             @@ Producers(N, MergeProducers))

NextMerge ==
  \/ ConsumerCall
  \/ ConsumerSink
  \/ ConsumerIdle
  \/ MergeSource
  \/ MergeSourceFor
  \/ MergeSink
  \/ MergeTalkback
  \/ MergeTalkbackFor
  \/ ProducerSource
  \/ ProducerTalkback
  \/ ProducerEmit
  \/ ProducerTick

SpecMerge == InitMerge /\ [][NextMerge]_vars

\* forEach(op)(merge(fromIter(A), fromIter(B))); the items of B are 11, 12, ...
InitMergeIter ==
  /\ stack = <<>>
  /\ trace = <<>>
  /\ \E A \in SeqsUpTo(MaxLen), B \in SeqsUpTo(MaxLen) :
       st = ("forEach" :> ForEachState("merge")
             @@ "merge" :> MergeState(FirstNames(IterNames, 2))
             @@ "fromIter1" :> FromIterState(A)
             @@ "fromIter2" :> FromIterState([k \in 1..Len(B) |-> B[k] + 10]))

NextMergeIter ==
  \/ ForEachCall
  \/ ForEachSink
  \/ FromIterSource
  \/ FromIterTalkback
  \/ FromIterLoop
  \/ FromIterLoopExit
  \/ MergeSource
  \/ MergeSourceFor
  \/ MergeSink
  \/ MergeTalkback
  \/ MergeTalkbackFor

SpecMergeIter == InitMergeIter /\ [][NextMergeIter]_vars

(* ------------------------------- concat -------------------------------- *)

\* sources: the node names of concat's arguments; i counts the sources that ended
ConcatState(sources) ==
  [kind |-> "concat", sources |-> sources, sink |-> NoTb, i |-> 0,
   sourceTalkback |-> NoTb]

\* the talkback () => {} handed out when there is no source
Noop == Callable("noop", 0)

\* a call of () => {} returns at once
NoopCall ==
  /\ stack # <<>>
  /\ Top.node = Noop.node
  /\ stack' = Ret
  /\ UNCHANGED <<st, trace>>

ConcatGreetsOnEveryStart(i) == TRUE

\* if (i === 0) sink(0, talkback); else sourceTalkback(1);
ConcatGreets(i) == i = 0

ConcatSkipsASource(i) == i + 2

\* i++
ConcatAdvance(i) == i + 1

\* concat(...sources)(0, sink), up to the first call of next()
ConcatSource ==
  /\ At("concat", "source", "start")
  /\ LET n == Top.node
     IN /\ st' = [st EXCEPT ![n] = [ConcatState(st[n].sources) EXCEPT !.sink = Top.d]]
        /\ stack' = IF Len(st[n].sources) = 0
                    THEN CallThen(Frame("sink", Top.d, START, Noop), "end")
                    ELSE Goto("next")
  /\ UNCHANGED trace

\* n === 0: sink(2) after sink(0, () => {})
ConcatSourceEnd ==
  /\ At("concat", "source", "end")
  /\ stack' = TailCall(Frame("sink", st[Top.node].sink, END, Undef))
  /\ UNCHANGED <<st, trace>>

\* function next() { if (i === n) { sink(2); return; } sources[i](0, (t, d) => ...) }
ConcatNext ==
  /\ stack # <<>>
  /\ Top.node \in DOMAIN st
  /\ st[Top.node].kind = "concat"
  /\ Top.pc = "next"
  /\ LET n == Top.node
         s == st[n]
     IN stack' = IF s.i >= Len(s.sources)
                 THEN TailCall(Frame("sink", s.sink, END, Undef))
                 ELSE TailCall(Frame("source", Callable(s.sources[s.i + 1], 0), START,
                                     Callable(n, 0)))
  /\ UNCHANGED <<st, trace>>

\* the callback concat hands to sources[i]
ConcatSink ==
  /\ At("concat", "sink", "start")
  /\ LET n == Top.node
         s == st[n]
     IN IF Top.t = START
        THEN /\ st' = [st EXCEPT ![n].sourceTalkback = Top.d]
             /\ stack' = IF ConcatGreets(s.i)
                         THEN TailCall(Frame("sink", s.sink, START, Callable(n, 0)))
                         ELSE TailCall(Frame("talkback", Top.d, DATA, Undef))
        ELSE IF Top.t = DATA
        THEN /\ stack' = TailCall(Frame("sink", s.sink, DATA, Top.d))
             /\ UNCHANGED st
        ELSE IF Top.t = END
        THEN /\ st' = [st EXCEPT ![n].i = ConcatAdvance(@)]
             /\ stack' = Goto("next")
        ELSE /\ stack' = Ret
             /\ UNCHANGED st
  /\ UNCHANGED trace

\* const talkback = (t, d) => { if (t === 1 || t === 2) sourceTalkback(t, d); }
ConcatTalkback ==
  /\ At("concat", "talkback", "start")
  /\ stack' = IF Top.t \in {DATA, END}
              THEN TailCall(Frame("talkback", st[Top.node].sourceTalkback, Top.t, Top.d))
              ELSE Ret
  /\ UNCHANGED <<st, trace>>

\* the iterable of the p-th source: 10 p + 1, ..., 10 p + len
IterRange(p, len) == [k \in 1..len |-> 10 * p + k]

\* the sets of functions from 1..k to 0..MaxLen: one length per source
Lengths(k) == [1..k -> 0..MaxLen]

\* fromIter sources 1..k with iterables of the given lengths
Iters(k, len) ==
  [x \in {IterNames[p] : p \in 1..k} |->
     LET p == CHOOSE q \in 1..k : IterNames[q] = x
     IN FromIterState(IterRange(p, len[p]))]

\* forEach(op)(concat(fromIter(S1), ..., fromIter(SN))), N up to MaxSources
InitConcat ==
  /\ stack = <<>>
  /\ trace = <<>>
  /\ \E N \in 0..MaxSources :
       \E len \in Lengths(N) :
         st = ("forEach" :> ForEachState("concat")
               @@ "concat" :> ConcatState(FirstNames(IterNames, N))
               @@ Iters(N, len))

NextConcat ==
  \/ ForEachCall
  \/ ForEachSink
  \/ FromIterSource
  \/ FromIterTalkback
  \/ FromIterLoop
  \/ FromIterLoopExit
  \/ ConcatSource
  \/ ConcatSourceEnd
  \/ ConcatNext
  \/ ConcatSink
  \/ ConcatTalkback
  \/ NoopCall

SpecConcat == InitConcat /\ [][NextConcat]_vars

(* ------------------------------- combine ------------------------------- *)

\* const EMPTY = {}: the mark of a source that has sent no DATA yet
EMPTY == -3

\* sources: the node names of combine's arguments; port p is JavaScript's i = p - 1
CombineState(sources) ==
  [kind |-> "combine", sources |-> sources, sink |-> NoTb,
   Ns |-> Len(sources), Nd |-> Len(sources), Ne |-> Len(sources),
   vals |-> [p \in 1..Len(sources) |-> Undef],
   sourceTalkbacks |-> [p \in 1..Len(sources) |-> NoTb]]

CombineCountsEveryData(Nd, val) == IF Nd = 0 THEN 0 ELSE Nd - 1

\* !Nd ? 0 : vals[i] === EMPTY ? --Nd : Nd, val being vals[i]
CombineNd(Nd, val) == IF Nd = 0 THEN 0 ELSE IF val = EMPTY THEN Nd - 1 ELSE Nd

\* vals[i] = d
CombineStore(vals, p, d) == [vals EXCEPT ![p] = d]

\* combine(...sources)(0, sink), up to sources.forEach
CombineSource ==
  /\ At("combine", "source", "start")
  /\ LET n == Top.node
     IN /\ st' = [st EXCEPT ![n] = [CombineState(st[n].sources) EXCEPT !.sink = Top.d]]
        /\ stack' = IF Len(st[n].sources) = 0
                    THEN CallThen(Frame("sink", Top.d, START, Noop), "data0")
                    ELSE Goto("forEach")
  /\ UNCHANGED trace

\* n === 0: sink(1, []) and then sink(2)
CombineSourceEmpty ==
  /\ stack # <<>>
  /\ Top.node \in DOMAIN st
  /\ st[Top.node].kind = "combine"
  /\ Top.pc \in {"data0", "end0"}
  /\ stack' = IF Top.pc = "data0"
              THEN CallThen(Frame("sink", st[Top.node].sink, DATA, <<>>), "end0")
              ELSE TailCall(Frame("sink", st[Top.node].sink, END, Undef))
  /\ UNCHANGED <<st, trace>>

\* sources.forEach((source, i) => { vals[i] = EMPTY; source(0, (t, d) => ...) })
CombineSourceForEach ==
  /\ At("combine", "source", "forEach")
  /\ LET n == Top.node
         s == st[n]
         p == Top.i + 1
     IN IF Top.i < Len(s.sources)
        THEN /\ st' = [st EXCEPT ![n].vals[p] = EMPTY]
             /\ stack' = <<Frame("source", Callable(s.sources[p], 0), START, Callable(n, p)),
                           [Top EXCEPT !.i = p]>> \o Tail(stack)
        ELSE /\ stack' = Ret
             /\ UNCHANGED st
  /\ UNCHANGED trace

\* the callback combine hands to sources[i]
CombineSink ==
  /\ At("combine", "sink", "start")
  /\ LET n == Top.node
         s == st[n]
         p == Top.port
         Nd == CombineNd(s.Nd, s.vals[p])
         arr == CombineStore(s.vals, p, Top.d)
     IN IF Top.t = START
        THEN /\ st' = [st EXCEPT ![n].sourceTalkbacks[p] = Top.d, ![n].Ns = @ - 1]
             /\ stack' = IF s.Ns - 1 = 0
                         THEN TailCall(Frame("sink", s.sink, START, Callable(n, 0)))
                         ELSE Ret
        ELSE IF Top.t = DATA
        THEN /\ st' = [st EXCEPT ![n].Nd = Nd, ![n].vals = arr]
             /\ stack' = IF Nd = 0
                         THEN TailCall(Frame("sink", s.sink, DATA, arr))
                         ELSE Ret
        ELSE IF Top.t = END
        THEN /\ st' = [st EXCEPT ![n].Ne = @ - 1]
             /\ stack' = IF s.Ne - 1 = 0
                         THEN TailCall(Frame("sink", s.sink, END, Undef))
                         ELSE Ret
        ELSE /\ stack' = TailCall(Frame("sink", s.sink, Top.t, Top.d))
             /\ UNCHANGED st
  /\ UNCHANGED trace

\* const talkback = (t, d) => { if (t === 0) return; ...
CombineTalkback ==
  /\ At("combine", "talkback", "start")
  /\ stack' = IF Top.t = START THEN Ret ELSE Goto("for")
  /\ UNCHANGED <<st, trace>>

\* ... for (let i = 0; i < n; i++) sourceTalkbacks[i](t, d); }
CombineTalkbackFor ==
  /\ At("combine", "talkback", "for")
  /\ LET s == st[Top.node]
         p == Top.i + 1
     IN stack' = IF Top.i < Len(s.sources)
                 THEN <<Frame("talkback", s.sourceTalkbacks[p], Top.t, Top.d),
                        [Top EXCEPT !.i = p]>> \o Tail(stack)
                 ELSE Ret
  /\ UNCHANGED <<st, trace>>

\* what the sources and the sink of combine may do
CombineProducers == [budget |-> MaxSent, sync |-> TRUE, mayErr |-> TRUE, log |-> FALSE]
CombineConsumer == [mayPull |-> TRUE, mayCancel |-> TRUE, log |-> FALSE]

\* a consumer on combine(producer1, ..., producerN), for every N up to MaxSources
InitCombine ==
  /\ stack = <<>>
  /\ trace = <<>>
  /\ \E N \in 0..MaxSources :
       st = ("consumer" :> ConsumerState("combine", CombineConsumer)
             @@ "combine" :> CombineState(FirstNames(ProducerNames, N))
             @@ Producers(N, CombineProducers))

NextCombine ==
  \/ ConsumerCall
  \/ ConsumerSink
  \/ ConsumerIdle
  \/ CombineSource
  \/ CombineSourceEmpty
  \/ CombineSourceForEach
  \/ CombineSink
  \/ CombineTalkback
  \/ CombineTalkbackFor
  \/ ProducerSource
  \/ ProducerTalkback
  \/ ProducerEmit
  \/ ProducerTick
  \/ NoopCall

SpecCombine == InitCombine /\ [][NextCombine]_vars

(* -------------------------------- share -------------------------------- *)

\* sinks and sourceTalkback belong to share(source) and outlive every call of
\* shared; envs[k] is the sink of the k-th call shared(0, sink), whose
\* talkback and upstream callback are the closures of port k
ShareState(source) ==
  [kind |-> "share", source |-> source, sinks |-> <<>>, sourceTalkback |-> NoTb,
   envs |-> <<>>]

ShareRemovesEverySink(sinks, sink) == <<>>

\* const i = sinks.indexOf(sink); if (i > -1) sinks.splice(i, 1)
ShareRemove(sinks, sink) ==
  LET at == {i \in 1..Len(sinks) : sinks[i] = sink}
  IN IF at = {} THEN sinks
     ELSE LET i == CHOOSE j \in at : \A k \in at : j <= k
          IN SubSeq(sinks, 1, i - 1) \o SubSeq(sinks, i + 1, Len(sinks))

\* if (sinks.length === 1) source(0, ...)
ShareStarts(sinks) == Len(sinks) = 1

\* shared(0, sink)
ShareSource ==
  /\ At("share", "source", "start")
  /\ LET n == Top.node
         s == st[n]
         k == Len(s.envs) + 1
         sinks == Append(s.sinks, Top.d)
     IN /\ st' = [st EXCEPT ![n].envs = Append(@, Top.d), ![n].sinks = sinks]
        /\ stack' = IF ShareStarts(sinks)
                    THEN TailCall(Frame("source", Callable(s.source, 0), START, Callable(n, k)))
                    ELSE TailCall(Frame("sink", Top.d, START, Callable(n, k)))
  /\ UNCHANGED trace

\* the callback the k-th call of shared handed to the upstream source
ShareSink ==
  /\ At("share", "sink", "start")
  /\ LET n == Top.node
         s == st[n]
     IN IF Top.t = START
        THEN /\ st' = [st EXCEPT ![n].sourceTalkback = Top.d]
             /\ stack' = TailCall(Frame("sink", s.envs[Top.port], START, Callable(n, Top.port)))
        ELSE /\ stack' = <<[Top EXCEPT !.pc = "for", !.zs = s.sinks]>> \o Tail(stack)
             /\ UNCHANGED st
  /\ UNCHANGED trace

\* for (let s of sinks.slice(0)) s(t, d); and then if (t === 2) sinks = []
ShareSinkFor ==
  /\ At("share", "sink", "for")
  /\ LET n == Top.node
     IN IF Top.i < Len(Top.zs)
        THEN /\ stack' = <<Frame("sink", Top.zs[Top.i + 1], Top.t, Top.d),
                           [Top EXCEPT !.i = @ + 1]>> \o Tail(stack)
             /\ UNCHANGED st
        ELSE /\ stack' = Ret
             /\ st' = IF Top.t = END THEN [st EXCEPT ![n].sinks = <<>>] ELSE st
  /\ UNCHANGED trace

\* the talkback of the k-th call of shared
ShareTalkback ==
  /\ At("share", "talkback", "start")
  /\ LET n == Top.node
         s == st[n]
         sinks == ShareRemove(s.sinks, s.envs[Top.port])
     IN IF Top.t = START
        THEN /\ stack' = Ret
             /\ UNCHANGED st
        ELSE IF Top.t = END
        THEN /\ st' = [st EXCEPT ![n].sinks = sinks]
             /\ stack' = IF Len(sinks) = 0
                         THEN TailCall(Frame("talkback", s.sourceTalkback, END, Undef))
                         ELSE Ret
        ELSE /\ stack' = TailCall(Frame("talkback", s.sourceTalkback, Top.t, Top.d))
             /\ UNCHANGED st
  /\ UNCHANGED trace

\* consumers 1..k of one source and one mode
Consumers(k, source, mode) ==
  [x \in {ConsumerNames[p] : p \in 1..k} |-> ConsumerState(source, mode)]

\* what the source and the sinks of share may do
ShareProducers == [budget |-> MaxSent, sync |-> TRUE, mayErr |-> TRUE, log |-> TRUE]
ShareConsumer == [mayPull |-> TRUE, mayCancel |-> TRUE, log |-> TRUE]

\* up to MaxPullers consumers that subscribe to share(producer1) at any moment
InitShare ==
  /\ stack = <<>>
  /\ trace = <<>>
  /\ \E K \in 1..MaxPullers :
       st = ("share" :> ShareState("producer1")
             @@ Consumers(K, "share", ShareConsumer)
             @@ Producers(1, ShareProducers))

NextShare ==
  \/ ConsumerCall
  \/ ConsumerSink
  \/ ConsumerIdle
  \/ ShareSource
  \/ ShareSink
  \/ ShareSinkFor
  \/ ShareTalkback
  \/ ProducerSource
  \/ ProducerTalkback
  \/ ProducerEmit
  \/ ProducerTick

SpecShare == InitShare /\ [][NextShare]_vars

\* a listenable source and sinks that do not pull
ListenProducers == [budget |-> MaxSent, sync |-> FALSE, mayErr |-> TRUE, log |-> TRUE]
ListenConsumer == [mayPull |-> FALSE, mayCancel |-> TRUE, log |-> TRUE]

\* up to MaxSinks listeners that subscribe to share(producer1) at any moment
InitShareListen ==
  /\ stack = <<>>
  /\ trace = <<>>
  /\ \E K \in 1..MaxSinks :
       st = ("share" :> ShareState("producer1")
             @@ Consumers(K, "share", ListenConsumer)
             @@ Producers(1, ListenProducers))

NextShareListen ==
  \/ ConsumerCall
  \/ ConsumerSink
  \/ ConsumerIdle
  \/ ShareSource
  \/ ShareSink
  \/ ShareSinkFor
  \/ ShareTalkback
  \/ ProducerSource
  \/ ProducerTalkback
  \/ ProducerTick

SpecShareListen == InitShareListen /\ [][NextShareListen]_vars

\* inside the handler of one sink, which receives a DATA, another sink that
\* is attached sends END through its own talkback (the two belong to one
\* program: what the first is handed makes the second unsubscribe)
ConsumerCancelsPeer ==
  /\ At("consumer", "sink", "start")
  /\ Top.t = DATA
  /\ LET n == Top.node
     IN /\ trace' = Log(n, Event(n, "sink", Top.t, Top.d))
        /\ \E m \in DOMAIN st \ {n} :
             /\ st[m].kind = "consumer"
             /\ st[m].mode.mayCancel
             /\ st[m].started /\ ~st[m].ended /\ ~st[m].cancelled
             /\ st' = [st EXCEPT ![n] = AfterReceive(st[n], Top.t, Top.d),
                                 ![m].cancelled = TRUE]
             /\ stack' = TailCall(Frame("talkback", st[m].talkback, END, Undef))

\* the listeners of share(producer1), any of which may also unsubscribe
\* inside the handler of another
NextShareCancel ==
  \/ ConsumerCall
  \/ ConsumerSink
  \/ ConsumerCancelsPeer
  \/ ConsumerIdle
  \/ ShareSource
  \/ ShareSink
  \/ ShareSinkFor
  \/ ShareTalkback
  \/ ProducerSource
  \/ ProducerTalkback
  \/ ProducerTick

SpecShareCancel == InitShareListen /\ [][NextShareCancel]_vars

(* ------------------------------- flatten ------------------------------- *)

\* outerTalkback and innerTalkback are undefined (NoTb) until assigned
FlattenState(source) ==
  [kind |-> "flatten", source |-> source, sink |-> NoTb, outerEnded |-> FALSE,
   outerTalkback |-> NoTb, innerTalkback |-> NoTb]

\* the callback handed to the outer source, and the one handed to every
\* inner source (the inner callbacks close over the same variables)
OuterPort == 0
InnerPort == 1

\* flatten(source)(0, sink)
FlattenSource ==
  /\ At("flatten", "source", "start")
  /\ LET n == Top.node
     IN /\ st' = [st EXCEPT ![n] = [FlattenState(st[n].source) EXCEPT !.sink = Top.d]]
        /\ stack' = TailCall(Frame("source", Callable(st[n].source, 0), START,
                                   Callable(n, OuterPort)))
  /\ UNCHANGED trace

FlattenPullsOuterFirst(s) ==
  IF s.outerTalkback # NoTb THEN s.outerTalkback
  ELSE IF s.innerTalkback # NoTb THEN s.innerTalkback ELSE Noop

\* innerTalkback || outerTalkback || noop
FlattenPullTarget(s) ==
  IF s.innerTalkback # NoTb THEN s.innerTalkback
  ELSE IF s.outerTalkback # NoTb THEN s.outerTalkback ELSE Noop

\* function talkback(t, d)
FlattenTalkback ==
  /\ At("flatten", "talkback", "start")
  /\ LET s == st[Top.node]
     IN stack' =
          IF Top.t = DATA THEN TailCall(Frame("talkback", FlattenPullTarget(s), DATA, Top.d))
          ELSE IF Top.t = END
          THEN IF s.innerTalkback # NoTb
               THEN CallThen(Frame("talkback", s.innerTalkback, END, Undef), "outer")
               ELSE Goto("outer")
          ELSE Ret
  /\ UNCHANGED <<st, trace>>

\* outerTalkback && outerTalkback(2)
FlattenTalkbackOuter ==
  /\ At("flatten", "talkback", "outer")
  /\ LET s == st[Top.node]
     IN stack' = IF s.outerTalkback # NoTb
                 THEN TailCall(Frame("talkback", s.outerTalkback, END, Undef))
                 ELSE Ret
  /\ UNCHANGED <<st, trace>>

FlattenEndsWhenOuterEnds(s) == TRUE

\* if (!innerTalkback) sink(2); else outerEnded = true
FlattenEndsWithOuter(s) == s.innerTalkback = NoTb

\* the callback (T, D) of the outer source
FlattenSink ==
  /\ At("flatten", "sink", "start")
  /\ Top.port = OuterPort
  /\ LET n == Top.node
         s == st[n]
     IN IF Top.t = START
        THEN /\ st' = [st EXCEPT ![n].outerTalkback = Top.d]
             /\ stack' = TailCall(Frame("sink", s.sink, START, Callable(n, 0)))
        ELSE IF Top.t = DATA
        THEN /\ stack' = IF s.innerTalkback # NoTb
                         THEN CallThen(Frame("talkback", s.innerTalkback, END, Undef), "inner")
                         ELSE Goto("inner")
             /\ UNCHANGED st
        ELSE IF Top.t = END /\ Top.d = Undef
        THEN IF FlattenEndsWithOuter(s)
             THEN /\ stack' = TailCall(Frame("sink", s.sink, END, Undef))
                  /\ UNCHANGED st
             ELSE /\ st' = [st EXCEPT ![n].outerEnded = TRUE]
                  /\ stack' = Ret
        ELSE IF Top.t = END
        THEN /\ stack' = TailCall(Frame("sink", s.sink, END, Top.d))
             /\ UNCHANGED st
        ELSE /\ stack' = Ret
             /\ UNCHANGED st
  /\ UNCHANGED trace

\* innerSource(0, (t, d) => ...), innerSource being the outer DATA
FlattenSinkInner ==
  /\ At("flatten", "sink", "inner")
  /\ stack' = TailCall(Frame("source", Top.d, START, Callable(Top.node, InnerPort)))
  /\ UNCHANGED <<st, trace>>

\* the callback (t, d) of an inner source
FlattenInnerSink ==
  /\ At("flatten", "sink", "start")
  /\ Top.port = InnerPort
  /\ LET n == Top.node
         s == st[n]
     IN IF Top.t = START
        THEN /\ st' = [st EXCEPT ![n].innerTalkback = Top.d]
             /\ stack' = TailCall(Frame("talkback", Top.d, DATA, Undef))
        ELSE IF Top.t = DATA
        THEN /\ stack' = TailCall(Frame("sink", s.sink, DATA, Top.d))
             /\ UNCHANGED st
        ELSE IF Top.t = END /\ Top.d = Undef
        THEN IF s.outerEnded
             THEN /\ stack' = TailCall(Frame("sink", s.sink, END, Undef))
                  /\ UNCHANGED st
             ELSE /\ st' = [st EXCEPT ![n].innerTalkback = NoTb]
                  /\ stack' = TailCall(Frame("talkback", s.outerTalkback, DATA, Undef))
        ELSE IF Top.t = END
        THEN /\ stack' = TailCall(Frame("sink", s.sink, END, Top.d))
             /\ UNCHANGED st
        ELSE /\ stack' = Ret
             /\ UNCHANGED st
  /\ UNCHANGED trace

\* the inner sources: producers 2 .. k + 1, as callables
InnerSources(k) == [p \in 1..k |-> Callable(ProducerNames[p + 1], 0)]

\* what the outer source, the inner sources and the sink of flatten may do
OuterProducer(k) ==
  [budget |-> k, sync |-> TRUE, mayErr |-> TRUE, log |-> FALSE, items |-> InnerSources(k)]
InnerProducers == [budget |-> MaxEmit, sync |-> TRUE, mayErr |-> TRUE, log |-> FALSE]
FlattenConsumer == [mayPull |-> TRUE, mayCancel |-> TRUE, log |-> FALSE]

\* a consumer on flatten(producer1), producer1 sending up to MaxSources inner
\* sources producer2, producer3, ...
InitFlatten ==
  /\ stack = <<>>
  /\ trace = <<>>
  /\ \E N \in 0..MaxSources :
       st = ("consumer" :> ConsumerState("flatten", FlattenConsumer)
             @@ "flatten" :> FlattenState("producer1")
             @@ "producer1" :> ProducerState(10, OuterProducer(N))
             @@ Producers(N + 1, InnerProducers))

NextFlatten ==
  \/ ConsumerCall
  \/ ConsumerSink
  \/ ConsumerIdle
  \/ FlattenSource
  \/ FlattenTalkback
  \/ FlattenTalkbackOuter
  \/ FlattenSink
  \/ FlattenSinkInner
  \/ FlattenInnerSink
  \/ ProducerSource
  \/ ProducerTalkback
  \/ ProducerEmit
  \/ ProducerTick

SpecFlatten == InitFlatten /\ [][NextFlatten]_vars

(* ---------------------------- map and filter --------------------------- *)

\* the functions handed to map, filter and scan, by name
Apply(f, x) == IF f = "double" THEN x * 2 ELSE x
Holds(condition, x) == IF condition = "multipleOf4" THEN x % 4 = 0 ELSE TRUE

MapState(f, source) == [kind |-> "map", f |-> f, source |-> source, sink |-> NoTb]

\* map(f)(source)(0, sink)
MapSource ==
  /\ At("map", "source", "start")
  /\ LET n == Top.node
     IN /\ st' = [st EXCEPT ![n].sink = Top.d]
        /\ stack' = TailCall(Frame("source", Callable(st[n].source, 0), START, Callable(n, 0)))
  /\ UNCHANGED trace

\* sink(t, t === 1 ? f(d) : d)
MapSink ==
  /\ At("map", "sink", "start")
  /\ LET s == st[Top.node]
     IN stack' = TailCall(Frame("sink", s.sink, Top.t,
                                IF Top.t = DATA THEN Apply(s.f, Top.d) ELSE Top.d))
  /\ UNCHANGED <<st, trace>>

FilterState(condition, source) ==
  [kind |-> "filter", condition |-> condition, source |-> source, sink |-> NoTb,
   talkback |-> NoTb]

\* filter(condition)(source)(0, sink)
FilterSource ==
  /\ At("filter", "source", "start")
  /\ LET n == Top.node
     IN /\ st' = [st EXCEPT ![n].sink = Top.d, ![n].talkback = NoTb]
        /\ stack' = TailCall(Frame("source", Callable(st[n].source, 0), START, Callable(n, 0)))
  /\ UNCHANGED trace

FilterDropsSilently == FALSE

\* if (condition(d)) sink(t, d); else talkback(1): a rejected item is answered
\* with a pull
FilterPullsOnReject == TRUE

\* the callback filter hands to its source
FilterSink ==
  /\ At("filter", "sink", "start")
  /\ LET n == Top.node
         s == st[n]
     IN IF Top.t = START
        THEN /\ st' = [st EXCEPT ![n].talkback = Top.d]
             /\ stack' = TailCall(Frame("sink", s.sink, START, Top.d))
        ELSE /\ UNCHANGED st
             /\ stack' = IF Top.t = DATA /\ ~Holds(s.condition, Top.d)
                         THEN IF FilterPullsOnReject
                              THEN TailCall(Frame("talkback", s.talkback, DATA, Undef))
                              ELSE Ret
                         ELSE TailCall(Frame("sink", s.sink, Top.t, Top.d))
  /\ UNCHANGED trace

(* ------------- forEach over take, filter, map and fromIter ------------- *)

\* 1, 2, ..., len
Range(len) == [k \in 1..len |-> k]

\* forEach(op)(take(max)(filter(x => x % 4 === 0)(map(x => x * 2)(fromIter([1 .. L])))))
InitPipe ==
  /\ stack = <<>>
  /\ trace = <<>>
  /\ \E L \in 0..MaxRange, max \in 0..MaxTake :
       st = ("forEach" :> ForEachState("take")
             @@ "take" :> TakeState(max, "filter")
             @@ "filter" :> FilterState("multipleOf4", "map")
             @@ "map" :> MapState("double", "fromIter")
             @@ "fromIter" :> FromIterState(Range(L)))

NextPipe ==
  \/ ForEachCall
  \/ ForEachSink
  \/ TakeSource
  \/ TakeTalkback
  \/ TakeSink
  \/ TakeSinkCheck
  \/ TakeSinkCancel
  \/ FilterSource
  \/ FilterSink
  \/ MapSource
  \/ MapSink
  \/ FromIterSource
  \/ FromIterTalkback
  \/ FromIterLoop
  \/ FromIterLoopExit

SpecPipe == InitPipe /\ [][NextPipe]_vars

(* --------------------------------- scan -------------------------------- *)

\* what JavaScript makes of undefined + d
NaN == -4

\* the reducer (acc, d) => acc + d
Reduce(reducer, acc, d) ==
  IF reducer = "sum" THEN (IF acc \in {Undef, NaN} THEN NaN ELSE acc + d) ELSE d

\* hasAcc belongs to scan(reducer, seed) and outlives every invocation of the
\* source it returns; sinks[k] and accs[k] are sink and acc of the k-th
\* invocation, whose upstream callback is the closure of port k.  seed is
\* Undef and hasAcc is FALSE if scan was called with the reducer alone.
ScanState(reducer, hasSeed, seed, source) ==
  [kind |-> "scan", reducer |-> reducer, seed |-> IF hasSeed THEN seed ELSE Undef,
   hasAcc |-> hasSeed, source |-> source, sinks |-> <<>>, accs |-> <<>>]

\* (start, sink) => { let acc = seed; source(0, ...) }
ScanSource ==
  /\ At("scan", "source", "start")
  /\ LET n == Top.node
         s == st[n]
         k == Len(s.sinks) + 1
     IN /\ st' = [st EXCEPT ![n].sinks = Append(@, Top.d), ![n].accs = Append(@, s.seed)]
        /\ stack' = TailCall(Frame("source", Callable(s.source, 0), START, Callable(n, k)))
  /\ UNCHANGED trace

ScanAlwaysReduces(hasAcc, reducer, acc, d) == Reduce(reducer, acc, d)

\* hasAcc ? reducer(acc, d) : (hasAcc = true, d)
ScanAcc(hasAcc, reducer, acc, d) == IF hasAcc THEN Reduce(reducer, acc, d) ELSE d

\* the callback the k-th invocation hands to source
ScanSink ==
  /\ At("scan", "sink", "start")
  /\ LET n == Top.node
         s == st[n]
         k == Top.port
         acc == ScanAcc(s.hasAcc, s.reducer, s.accs[k], Top.d)
     IN IF Top.t = DATA
        THEN /\ st' = [st EXCEPT ![n].hasAcc = TRUE, ![n].accs[k] = acc]
             /\ stack' = TailCall(Frame("sink", s.sinks[k], DATA, acc))
        ELSE /\ stack' = TailCall(Frame("sink", s.sinks[k], Top.t, Top.d))
             /\ UNCHANGED st
  /\ UNCHANGED trace

ForEachNames == <<"forEach1", "forEach2", "forEach3", "forEach4">>

\* s = scan(sum)(fromIter(S)) or scan(sum, seed)(fromIter(S)), and MaxRuns
\* times forEach(op)(s), one after the other
InitScan ==
  /\ stack = <<>>
  /\ trace = <<>>
  /\ \E S \in SeqsUpTo(MaxLen), hasSeed \in BOOLEAN, seed \in 0..MaxVal :
       /\ ~hasSeed => seed = 0
       /\ st = ([x \in {ForEachNames[k] : k \in 1..MaxRuns} |-> ForEachState("scan")]
                @@ "scan" :> ScanState("sum", hasSeed, seed, "fromIter")
                @@ "fromIter" :> FromIterState(S))

NextScan ==
  \/ ForEachCall
  \/ ForEachSink
  \/ ScanSource
  \/ ScanSink
  \/ FromIterSource
  \/ FromIterTalkback
  \/ FromIterLoop
  \/ FromIterLoopExit

SpecScan == InitScan /\ [][NextScan]_vars

(* ------------------------------ makeSubject ---------------------------- *)

\* sinks is the variable of makeSubject(); envs[k] is the sink of the k-th
\* call subject(0, sink), whose talkback is the closure of port k; pushed
\* counts the calls subject(t, d) with t # 0 that external code made
SubjectState == [kind |-> "subject", sinks |-> <<>>, envs |-> <<>>, pushed |-> 0]

\* subject(0, sink)
SubjectSource ==
  /\ At("subject", "source", "start")
  /\ LET n == Top.node
         k == Len(st[n].envs) + 1
     IN /\ st' = [st EXCEPT ![n].envs = Append(@, Top.d), ![n].sinks = Append(@, Top.d)]
        /\ stack' = TailCall(Frame("sink", Top.d, START, Callable(n, k)))
  /\ UNCHANGED trace

SubjectKeepsSink(sinks, sink) == sinks

\* const i = sinks.indexOf(sink); if (i > -1) sinks.splice(i, 1)
SubjectRemove(sinks, sink) == ShareRemove(sinks, sink)

\* the talkback of the k-th call subject(0, sink): t => { if (t === 2) ... }
SubjectTalkback ==
  /\ At("subject", "talkback", "start")
  /\ LET n == Top.node
         sink == st[n].envs[Top.port]
     IN IF Top.t = END
        THEN /\ st' = [st EXCEPT ![n].sinks = SubjectRemove(@, sink)]
             /\ trace' = Append(trace, Event(sink.node, "cancel", END, Undef))
        ELSE UNCHANGED <<st, trace>>
  /\ stack' = Ret

\* external code calls subject(t, d): the k-th push of DATA carries k
SubjectPush ==
  /\ stack = <<>>
  /\ \E n \in DOMAIN st, t \in {DATA, END} :
       /\ st[n].kind = "subject"
       /\ st[n].pushed < MaxSent
       /\ LET d == IF t = DATA THEN st[n].pushed + 1 ELSE Undef
          IN /\ st' = [st EXCEPT ![n].pushed = @ + 1]
             /\ trace' = Append(trace, Event(n, "push", t, d))
             /\ stack' = <<[Frame("push", Callable(n, 0), t, d) EXCEPT !.zs = st[n].sinks]>>

\* if (sinks.indexOf(sink) > -1) sink(type, data)
SubjectSends(sinks, sink) == \E i \in DOMAIN sinks : sinks[i] = sink

\* const zinkz = sinks.slice(0); for (...) { sink = zinkz[i]; ... }
SubjectFor ==
  /\ At("subject", "push", "start")
  /\ LET s == st[Top.node]
         sink == Top.zs[Top.i + 1]
         rest == <<[Top EXCEPT !.i = @ + 1]>> \o Tail(stack)
     IN stack' = IF Top.i < Len(Top.zs)
                 THEN IF SubjectSends(s.sinks, sink)
                      THEN <<Frame("sink", sink, Top.t, Top.d)>> \o rest
                      ELSE rest
                 ELSE Ret
  /\ UNCHANGED <<st, trace>>

\* up to MaxSinks listeners that subscribe to a subject and cancel at any
\* moment, while external code pushes up to MaxSent messages
InitSubject ==
  /\ stack = <<>>
  /\ trace = <<>>
  /\ \E K \in 1..MaxSinks :
       st = ("subject" :> SubjectState @@ Consumers(K, "subject", ListenConsumer))

NextSubject ==
  \/ ConsumerCall
  \/ ConsumerSink
  \/ ConsumerIdle
  \/ SubjectSource
  \/ SubjectTalkback
  \/ SubjectPush
  \/ SubjectFor

SpecSubject == InitSubject /\ [][NextSubject]_vars

(* -------------------------------- sample ------------------------------- *)

\* port 0 is the callback handed to listenable, port 1 the one handed to pullable
SampleState(pullable, listenable) ==
  [kind |-> "sample", pullable |-> pullable, listenable |-> listenable, sink |-> NoTb,
   ltalkback |-> NoTb, ptalkback |-> NoTb]

\* sample(pullable)(listenable)(0, sink)
SampleSource ==
  /\ At("sample", "source", "start")
  /\ LET n == Top.node
         s == st[n]
     IN /\ st' = [st EXCEPT ![n] = [SampleState(s.pullable, s.listenable) EXCEPT !.sink = Top.d]]
        /\ stack' = TailCall(Frame("source", Callable(s.listenable, 0), START, Callable(n, 0)))
  /\ UNCHANGED trace

SampleForwards(s, d) == Frame("sink", s.sink, DATA, d)

\* if (lt === 1) ptalkback(1)
SampleAnswer(s, d) == Frame("talkback", s.ptalkback, DATA, Undef)

\* the callback (lt, ld) of listenable
SampleListenSink ==
  /\ At("sample", "sink", "start")
  /\ Top.port = 0
  /\ LET n == Top.node
         s == st[n]
     IN IF Top.t = START
        THEN /\ st' = [st EXCEPT ![n].ltalkback = Top.d]
             /\ stack' = CallThen(Frame("source", Callable(s.pullable, 0), START, Callable(n, 1)),
                                  "greet")
        ELSE /\ UNCHANGED st
             /\ stack' = IF Top.t = DATA THEN TailCall(SampleAnswer(s, Top.d))
                         ELSE IF Top.t = END
                         THEN CallThen(Frame("talkback", s.ptalkback, END, Undef), "end")
                         ELSE Ret
  /\ UNCHANGED trace

\* sink(0, t => ...), after pullable(0, ...) has returned
SampleGreet ==
  /\ At("sample", "sink", "greet")
  /\ stack' = TailCall(Frame("sink", st[Top.node].sink, START, Callable(Top.node, 0)))
  /\ UNCHANGED <<st, trace>>

\* the callback (pt, pd) of pullable
SamplePullSink ==
  /\ At("sample", "sink", "start")
  /\ Top.port = 1
  /\ LET n == Top.node
         s == st[n]
     IN IF Top.t = START
        THEN /\ st' = [st EXCEPT ![n].ptalkback = Top.d]
             /\ stack' = Ret
        ELSE /\ UNCHANGED st
             /\ stack' = IF Top.t = DATA THEN TailCall(Frame("sink", s.sink, DATA, Top.d))
                         ELSE IF Top.t = END
                         THEN CallThen(Frame("talkback", s.ltalkback, END, Undef), "end")
                         ELSE Ret
  /\ UNCHANGED trace

\* sink(2), after the other side was sent END
SampleEnd ==
  /\ At("sample", "sink", "end")
  /\ stack' = TailCall(Frame("sink", st[Top.node].sink, END, Undef))
  /\ UNCHANGED <<st, trace>>

\* t => { if (t === 2) { ltalkback(2); ptalkback(2) } }
SampleTalkback ==
  /\ At("sample", "talkback", "start")
  /\ stack' = IF Top.t = END
              THEN <<Frame("talkback", st[Top.node].ltalkback, END, Undef),
                     Frame("talkback", st[Top.node].ptalkback, END, Undef)>> \o Tail(stack)
              ELSE Ret
  /\ UNCHANGED <<st, trace>>

\* what the two sources and the sink of sample and sampleWhen may do
SampleProducers == [budget |-> MaxSent, sync |-> TRUE, mayErr |-> TRUE, log |-> FALSE]
SampleConsumer == [mayPull |-> TRUE, mayCancel |-> TRUE, log |-> FALSE]

\* a consumer on sample(producer2)(producer1)
InitSample ==
  /\ stack = <<>>
  /\ trace = <<>>
  /\ st = ("consumer" :> ConsumerState("sample", SampleConsumer)
           @@ "sample" :> SampleState("producer2", "producer1")
           @@ Producers(2, SampleProducers))

NextSample ==
  \/ ConsumerCall
  \/ ConsumerSink
  \/ ConsumerIdle
  \/ SampleSource
  \/ SampleListenSink
  \/ SampleGreet
  \/ SamplePullSink
  \/ SampleEnd
  \/ SampleTalkback
  \/ ProducerSource
  \/ ProducerTalkback
  \/ ProducerEmit
  \/ ProducerTick

SpecSample == InitSample /\ [][NextSample]_vars

(* ------------------- a sink that calls at any time --------------------- *)

\* most talkback calls the sink of fromIter makes
MaxCalls == 4

\* A sink that is not part of the bundle and calls its talkback whenever it
\* can: any number of times inside the callback that handed it START, DATA or
\* END, and between messages, also after it received END or sent END.  calls
\* counts its talkback calls, idle those it made between messages, cancelled
\* whether it has sent END; the other fields are those of a consumer.
PullerState(source) ==
  [kind |-> "puller", source |-> source, called |-> FALSE, talkback |-> NoTb,
   started |-> FALSE, ended |-> FALSE, cancelled |-> FALSE, calls |-> 0,
   idle |-> 0, got |-> <<0, 0, 0>>, late |-> FALSE, last |-> Undef, lastEnd |-> Undef]

\* the sink subscribes: source(0, sink)
PullerCall ==
  /\ stack = <<>>
  /\ \E n \in DOMAIN st :
       /\ st[n].kind = "puller"
       /\ ~st[n].called
       /\ st' = [st EXCEPT ![n].called = TRUE]
       /\ stack' = <<Frame("source", Callable(st[n].source, 0), START, Callable(n, 0))>>
  /\ UNCHANGED trace

\* the sink receives (t, d)
PullerSink ==
  /\ At("puller", "sink", "start")
  /\ st' = [st EXCEPT ![Top.node] = AfterReceive(st[Top.node], Top.t, Top.d)]
  /\ stack' = Goto("answer")
  /\ UNCHANGED trace

\* inside the callback the sink sends PULL or END once more, or returns
PullerAnswer ==
  /\ At("puller", "sink", "answer")
  /\ LET n == Top.node
         s == st[n]
     IN \/ /\ stack' = Ret
           /\ UNCHANGED st
        \/ /\ s.calls < MaxCalls
           /\ \E t \in {DATA, END} :
                /\ st' = [st EXCEPT ![n].calls = @ + 1,
                                    ![n].cancelled = @ \/ t = END]
                /\ stack' = CallThen(Frame("talkback", s.talkback, t, Undef), "answer")
  /\ UNCHANGED trace

\* between messages the sink sends PULL or END
PullerIdle ==
  /\ stack = <<>>
  /\ \E n \in DOMAIN st :
       /\ st[n].kind = "puller"
       /\ st[n].started
       /\ st[n].calls < MaxCalls
       /\ \E t \in {DATA, END} :
            /\ st' = [st EXCEPT ![n].calls = @ + 1, ![n].idle = @ + 1,
                                ![n].cancelled = @ \/ t = END]
            /\ stack' = <<Frame("talkback", st[n].talkback, t, Undef)>>
  /\ UNCHANGED trace

\* such a sink on fromIter(S) for every S of at most MaxLen items
InitIterPull ==
  /\ stack = <<>>
  /\ trace = <<>>
  /\ \E S \in SeqsUpTo(MaxLen) :
       st = ("puller" :> PullerState("fromIter") @@ "fromIter" :> FromIterState(S))

NextIterPull ==
  \/ PullerCall
  \/ PullerSink
  \/ PullerAnswer
  \/ PullerIdle
  \/ FromIterSource
  \/ FromIterTalkback
  \/ FromIterLoop
  \/ FromIterLoopExit

SpecIterPull == InitIterPull /\ [][NextIterPull]_vars

(* ------------------------------ sampleWhen ----------------------------- *)

\* port 0 is the callback handed to listenable, port 1 the one handed to
\* sampler; value is undefined until the first DATA of listenable
SampleWhenState(sampler, listenable) ==
  [kind |-> "sampleWhen", sampler |-> sampler, listenable |-> listenable, sink |-> NoTb,
   inited |-> FALSE, value |-> Undef, listenableTalkback |-> NoTb,
   samplerTalkback |-> NoTb]

\* sampleWhen(sampler)(listenable)(0, sink)
SampleWhenSource ==
  /\ At("sampleWhen", "source", "start")
  /\ LET n == Top.node
         s == st[n]
     IN /\ st' = [st EXCEPT ![n] = [SampleWhenState(s.sampler, s.listenable)
                                      EXCEPT !.sink = Top.d]]
        /\ stack' = TailCall(Frame("source", Callable(s.listenable, 0), START, Callable(n, 0)))
  /\ UNCHANGED trace

\* the callback (type, data) of listenable
SampleWhenListenSink ==
  /\ At("sampleWhen", "sink", "start")
  /\ Top.port = 0
  /\ LET n == Top.node
         s == st[n]
     IN IF Top.t = START
        THEN /\ st' = [st EXCEPT ![n].listenableTalkback = Top.d]
             /\ stack' = CallThen(Frame("source", Callable(s.sampler, 0), START, Callable(n, 1)),
                                  "greet")
        ELSE IF Top.t = DATA
        THEN /\ st' = [st EXCEPT ![n].inited = TRUE, ![n].value = Top.d]
             /\ stack' = Ret
        ELSE /\ UNCHANGED st
             /\ stack' = IF Top.t = END
                         THEN CallThen(Frame("talkback", s.samplerTalkback, END, Undef), "end")
                         ELSE Ret
  /\ UNCHANGED trace

\* sink(0, function (end) ...), after sampler(0, ...) has returned
SampleWhenGreet ==
  /\ At("sampleWhen", "sink", "greet")
  /\ stack' = TailCall(Frame("sink", st[Top.node].sink, START, Callable(Top.node, 0)))
  /\ UNCHANGED <<st, trace>>

SampleWhenAlwaysEmits(s) == TRUE

\* if (type === 1 && inited)
SampleWhenEmits(s) == s.inited

\* the callback (type, data) of sampler
SampleWhenSamplerSink ==
  /\ At("sampleWhen", "sink", "start")
  /\ Top.port = 1
  /\ LET n == Top.node
         s == st[n]
     IN IF Top.t = START
        THEN /\ st' = [st EXCEPT ![n].samplerTalkback = Top.d]
             /\ stack' = Ret
        ELSE /\ UNCHANGED st
             /\ stack' = IF Top.t = DATA /\ SampleWhenEmits(s)
                         THEN TailCall(Frame("sink", s.sink, DATA, s.value))
                         ELSE IF Top.t = END
                         THEN CallThen(Frame("talkback", s.listenableTalkback, END, Undef), "end")
                         ELSE Ret
  /\ UNCHANGED trace

\* sink(2), after the other side was sent END
SampleWhenEnd ==
  /\ At("sampleWhen", "sink", "end")
  /\ stack' = TailCall(Frame("sink", st[Top.node].sink, END, Undef))
  /\ UNCHANGED <<st, trace>>

\* function (end) { if (end !== 2) return; listenableTalkback(2); samplerTalkback(2) }
SampleWhenTalkback ==
  /\ At("sampleWhen", "talkback", "start")
  /\ stack' = IF Top.t = END
              THEN <<Frame("talkback", st[Top.node].listenableTalkback, END, Undef),
                     Frame("talkback", st[Top.node].samplerTalkback, END, Undef)>> \o Tail(stack)
              ELSE Ret
  /\ UNCHANGED <<st, trace>>

\* a consumer on sampleWhen(producer2)(producer1)
InitSampleWhen ==
  /\ stack = <<>>
  /\ trace = <<>>
  /\ st = ("consumer" :> ConsumerState("sampleWhen", SampleConsumer)
           @@ "sampleWhen" :> SampleWhenState("producer2", "producer1")
           @@ Producers(2, SampleProducers))

NextSampleWhen ==
  \/ ConsumerCall
  \/ ConsumerSink
  \/ ConsumerIdle
  \/ SampleWhenSource
  \/ SampleWhenListenSink
  \/ SampleWhenGreet
  \/ SampleWhenSamplerSink
  \/ SampleWhenEnd
  \/ SampleWhenTalkback
  \/ ProducerSource
  \/ ProducerTalkback
  \/ ProducerEmit
  \/ ProducerTick

SpecSampleWhen == InitSampleWhen /\ [][NextSampleWhen]_vars

(* ------------------------- reading the trace --------------------------- *)

\* the calls node n received through fn, in order
Received(n, fn) == SelectSeq(trace, LAMBDA e : e.node = n /\ e.fn = fn)

\* the payloads of the DATA calls sink n received, in order
DataOf(n) ==
  LET ev == SelectSeq(trace, LAMBDA e : e.node = n /\ e.fn = "sink" /\ e.t = DATA)
  IN [k \in 1..Len(ev) |-> ev[k].d]

\* how many calls with tag t node n received through fn
Count(n, fn, t) == Len(SelectSeq(trace, LAMBDA e : e.node = n /\ e.fn = fn /\ e.t = t))

IsPrefix(a, b) == Len(a) <= Len(b) /\ \A k \in 1..Len(a) : a[k] = b[k]

\* sink n got nothing after an END
NothingAfterEnd(n) ==
  LET ev == Received(n, "sink")
  IN \A k \in 1..Len(ev) : ev[k].t = END => k = Len(ev)

\* how often v occurs in sequence q
Occurrences(q, v) == Cardinality({k \in 1..Len(q) : q[k] = v})

\* what a consumer counted
GotStart(c) == c.got[START + 1]
GotData(c) == c.got[DATA + 1]
GotEnd(c) == c.got[END + 1]

\* the states of the sources of combinator node n, in argument order
SourcesOf(n) == [p \in 1..Len(st[n].sources) |-> st[st[n].sources[p]]]

(* ------------------------------ claims --------------------------------- *)

\* C1: forEach over fromIter(S) calls the operation with a prefix of S at any
\* moment, never gets anything after END nor a second END, and when the
\* forEach call has returned it has got exactly S, in order, and one END.
C1_ForEachYieldsIter ==
  LET S == st["fromIter"].iter
  IN /\ IsPrefix(DataOf("forEach"), S)
     /\ Count("forEach", "sink", END) <= 1
     /\ NothingAfterEnd("forEach")
     /\ Count("forEach", "sink", END) = 1 => DataOf("forEach") = S
     /\ (st["forEach"].called /\ stack = <<>>) =>
          /\ DataOf("forEach") = S
          /\ Count("forEach", "sink", END) = 1

\* a run over a list of MaxLen items with a repeated value has returned
C1_Witness ==
  /\ st["forEach"].called
  /\ stack = <<>>
  /\ Len(st["fromIter"].iter) = MaxLen
  /\ st["fromIter"].iter[1] = st["fromIter"].iter[2]
  /\ DataOf("forEach") = st["fromIter"].iter

\* C2: after START the sink of take(max) gets at most max DATA, then at most
\* one END, and nothing after that END.
C2_TakeAtMostNThenOneEnd ==
  /\ Count("consumer", "sink", DATA) <= st["take"].max
  /\ Count("consumer", "sink", END) <= 1
  /\ NothingAfterEnd("consumer")

\* where in trace node n received its first call with tag t through fn (0: never)
FirstAt(n, fn, t) ==
  LET at == {k \in 1..Len(trace) : trace[k].node = n /\ trace[k].fn = fn /\ trace[k].t = t}
  IN IF at = {} THEN 0 ELSE CHOOSE k \in at : \A j \in at : k <= j

\* C3: once take(max), max >= 1, has forwarded its max-th DATA it sends END
\* downstream and then END to the upstream talkback, and over the life of
\* the channel the upstream talkback is sent END exactly once.
C3_TakeCancelsUpstreamOnce ==
  /\ Count("producer", "talkback", END) <= 1
  /\ (Count("consumer", "sink", DATA) = st["take"].max /\ st["take"].max >= 1
      /\ stack = <<>>)
       => /\ Count("producer", "talkback", END) = 1
          /\ Count("consumer", "sink", END) >= 1
          /\ FirstAt("consumer", "sink", END) < FirstAt("producer", "talkback", END)

\* C4: the sink of merge gets END at most once, only when every source has
\* sent END, and then for sure; the sink of merge() never gets END.
C4_MergeEndsAfterAllSources ==
  LET c == st["consumer"]
      src == SourcesOf("merge")
      allEnded == \A p \in 1..Len(src) : src[p].ended
  IN /\ GotEnd(c) <= 1
     /\ GotEnd(c) = 1 => allEnded
     /\ Len(src) = 0 => GotEnd(c) = 0
     /\ (Len(src) >= 1 /\ allEnded /\ stack = <<>>) => GotEnd(c) = 1

\* merge of MaxSources sources has forwarded DATA and then END
C4_Witness ==
  /\ Len(st["merge"].sources) = MaxSources
  /\ GotData(st["consumer"]) >= MaxSources
  /\ GotEnd(st["consumer"]) = 1
  /\ stack = <<>>

\* C5 as stated, on iterables of two items each as in its scenario: when the
\* forEach call has returned, every item of both iterables has been delivered
\* exactly once and merge has sent END.
C5_MergeDeliversAllAndEnds ==
  (st["forEach"].called /\ stack = <<>>
   /\ Len(st["fromIter1"].iter) = 2 /\ Len(st["fromIter2"].iter) = 2) =>
    /\ \A v \in 1..(MaxVal + 10) :
         Occurrences(DataOf("forEach"), v)
           = Occurrences(st["fromIter1"].iter \o st["fromIter2"].iter, v)
    /\ Count("forEach", "sink", END) = 1

\* C5, amended: forEach over merge(fromIter(A), fromIter(B)) gets the items
\* of A in order, once each; B is started after A was drained and is never
\* pulled, so no item of B is delivered and merge never sends END.
C5_MergeDrainsFirstSourceOnly ==
  /\ IsPrefix(DataOf("forEach"), st["fromIter1"].iter)
  /\ Count("forEach", "sink", END) = 0
  /\ st["fromIter2"].pos = 0
  /\ ~st["fromIter2"].got1
  /\ (st["forEach"].called /\ stack = <<>>) =>
       /\ DataOf("forEach") = st["fromIter1"].iter
       /\ st["fromIter1"].res.done
       /\ st["fromIter2"].sink = Callable("merge", 2)

\* the forEach call over merge(fromIter(A), fromIter(B)) has returned, A and B
\* of MaxLen items
C5_Witness ==
  /\ st["forEach"].called
  /\ stack = <<>>
  /\ Len(st["fromIter1"].iter) = MaxLen
  /\ Len(st["fromIter2"].iter) = MaxLen
  /\ Len(DataOf("forEach")) = MaxLen

\* C10 (merge): once a source has sent END with an error and the call has
\* returned, a sink that has not cancelled has got END with that error and
\* no other source is left live.
C10_ErrorEndIsForwarded ==
  LET c == st["consumer"]
      src == SourcesOf("merge")
  IN \A p \in 1..Len(src) :
       (src[p].ended /\ src[p].endWith = Err /\ stack = <<>> /\ ~c.cancelled)
         => /\ GotEnd(c) = 1
            /\ c.lastEnd = Err
            /\ \A q \in 1..Len(src) : ~Live(src[q])

\* the iterables of the sources of combinator node n, one after the other
RECURSIVE ItersFrom(_, _)
ItersFrom(n, p) ==
  IF p > Len(st[n].sources) THEN <<>>
  ELSE st[st[n].sources[p]].iter \o ItersFrom(n, p + 1)

\* C7: concat invokes source p + 1 only after source p has sent END, sends
\* START downstream once, forwards a prefix of S1 S2 ... SN at any moment, and
\* when the forEach call has returned forEach has got START once, exactly
\* S1 S2 ... SN, and one END, after which nothing.
C7_ConcatIsSequential ==
  LET src == SourcesOf("concat")
      all == ItersFrom("concat", 1)
  IN /\ \A p \in 1..(Len(src) - 1) : src[p + 1].sink # NoTb => src[p].res.done
     /\ Count("forEach", "sink", START) <= 1
     /\ IsPrefix(DataOf("forEach"), all)
     /\ Count("forEach", "sink", END) <= 1
     /\ NothingAfterEnd("forEach")
     /\ (st["forEach"].called /\ stack = <<>>) =>
          /\ Count("forEach", "sink", START) = 1
          /\ DataOf("forEach") = all
          /\ Count("forEach", "sink", END) = 1

\* concat of MaxSources iterables, the first two of them not empty, was drained
C7_Witness ==
  /\ st["forEach"].called
  /\ stack = <<>>
  /\ Len(st["concat"].sources) = MaxSources
  /\ Len(st["fromIter1"].iter) >= 1
  /\ Len(st["fromIter2"].iter) >= 1
  /\ Len(DataOf("forEach")) >= 2

\* the latest DATA that source x of combine has sent (EMPTY: none yet)
Latest(x) == IF st[x].sent = 0 THEN EMPTY ELSE st[x].base + st[x].sent

\* the innermost call hands a DATA to node n
DataFor(stk, n) ==
  /\ stk # <<>>
  /\ Head(stk).node = n /\ Head(stk).fn = "sink"
  /\ Head(stk).pc = "start" /\ Head(stk).t = DATA

\* the latest DATA of every source of combine, in argument order
LatestTuple == [p \in 1..Len(st["combine"].sources) |-> Latest(st["combine"].sources[p])]

\* every source of combine has sent DATA
AllHaveSent == \A p \in DOMAIN LatestTuple : LatestTuple[p] # EMPTY

\* C6: combine answers a DATA of a source with one DATA to its sink if every
\* source has sent DATA by then, and with nothing otherwise; its sink is
\* handed no other DATA; the payload is the array of the latest DATA of
\* every source, in argument order, the DATA just received at its own place.
C6_CombineEmitsLatestTuple ==
  [][Len(st["combine"].sources) >= 1 =>
       /\ DataFor(stack, "combine") =>
            /\ stack' = IF AllHaveSent
                        THEN <<Frame("sink", Callable("consumer", 0), DATA, LatestTuple)>>
                               \o Tail(stack)
                        ELSE Tail(stack)
            /\ LatestTuple[Top.port] = Top.d
       /\ (DataFor(stack', "consumer") /\ stack' # stack) => DataFor(stack, "combine")
    ]_vars

\* combine of MaxSources sources has sent a tuple, and then another one
\* after one more DATA of its first source
C6_Witness ==
  /\ Len(st["combine"].sources) = MaxSources
  /\ GotData(st["consumer"]) >= 2
  /\ st["producer1"].sent >= 2
  /\ st["consumer"].last[1] = st["producer1"].base + 2
  /\ stack = <<>>

\* the consumers of the configuration
ConsumersOf == {n \in DOMAIN st : st[n].kind = "consumer"}

\* consumer c was greeted and has neither cancelled nor been sent END
Attached(c) == st[c].started /\ ~st[c].cancelled /\ ~st[c].ended

\* where in trace consumer c received START (0: nowhere)
StartAt(c) ==
  LET at == {k \in 1..Len(trace) :
               trace[k].node = c /\ trace[k].fn = "sink" /\ trace[k].t = START}
  IN IF at = {} THEN 0 ELSE CHOOSE k \in at : \A j \in at : k <= j

\* the payloads of the DATA the upstream sent after trace had k entries
EmitsAfter(k) ==
  LET ev == SelectSeq(SubSeq(trace, k + 1, Len(trace)),
                      LAMBDA e : e.fn = "emit" /\ e.t = DATA)
  IN [j \in 1..Len(ev) |-> ev[j].d]

\* what share's sinks see of the upstream, order included
ShareBroadcastsInOrder ==
  \A c \in ConsumersOf :
    /\ GotStart(st[c]) <= 1
    /\ (st[c].called /\ stack = <<>>) => GotStart(st[c]) = 1
    /\ IsPrefix(DataOf(c), EmitsAfter(StartAt(c)))
    /\ (Attached(c) /\ stack = <<>>) => DataOf(c) = EmitsAfter(StartAt(c))

\* C8: the upstream of share is invoked only by a subscription that finds no
\* sink attached, and is running whenever a sink is attached; every
\* subscriber is greeted once, within its subscription; every attached sink
\* receives the DATA the upstream sends after that, once each and in the
\* order the upstream sent them.
C8_ShareStartsOnceAndBroadcasts ==
  /\ [](/\ ShareBroadcastsInOrder
        /\ (stack = <<>> /\ \E c \in ConsumersOf : Attached(c))
             => (st["producer1"].started /\ ~st["producer1"].ended))
  /\ [][st'["producer1"].invoked > st["producer1"].invoked
          => \A c \in ConsumersOf : ~Attached(c)]_vars

\* what share's sinks see of the upstream, order left aside: nothing that
\* was sent before they were greeted, nothing twice, and everything sent
\* since once the calls have returned
ShareDeliversEverythingSince ==
  \A c \in ConsumersOf :
    LET since == EmitsAfter(StartAt(c))
    IN \A k \in DOMAIN since :
         /\ Occurrences(DataOf(c), since[k]) <= Occurrences(since, since[k])
         /\ (Attached(c) /\ stack = <<>>) =>
              Occurrences(DataOf(c), since[k]) = Occurrences(since, since[k])

\* C9: the upstream of share is sent END only when no sink is left attached;
\* between calls it is live exactly if some sink is attached, so that a
\* cancellation by one sink of several leaves it running, the cancellation
\* that empties the set stops it, and a later subscription starts it again;
\* the sinks that stay get every DATA sent while they are attached and none
\* sent before (no replay), and the END of the upstream.
C9_ShareCancelIsPerSink ==
  /\ [](/\ ShareDeliversEverythingSince
        /\ \A c \in ConsumersOf : Len(DataOf(c)) <= Len(EmitsAfter(StartAt(c)))
        /\ stack = <<>> =>
             ((\E c \in ConsumersOf : Attached(c)) <=> Live(st["producer1"])))
  /\ [][st'["producer1"].cancels > st["producer1"].cancels
          => /\ \A c \in ConsumersOf : ~Attached(c)
             /\ Live(st["producer1"])
             /\ st'["producer1"].cancels = st["producer1"].cancels + 1]_vars

\* of three sinks the first cancelled and the second still got DATA; the
\* second cancelled and the upstream was cancelled with it; the third
\* subscribed, the upstream was invoked again and the third got its DATA
C9_Witness ==
  /\ stack = <<>>
  /\ "consumer3" \in DOMAIN st
  /\ st["consumer1"].cancelled /\ GotData(st["consumer1"]) = 0
  /\ st["consumer2"].cancelled /\ GotData(st["consumer2"]) = 1
  /\ st["producer1"].cancels = 1
  /\ st["producer1"].invoked = 2
  /\ Attached("consumer3") /\ GotData(st["consumer3"]) = 1

\* the sources of the configuration that are producers
ProducersOf == {n \in DOMAIN st : st[n].kind = "producer"}

\* C11: once the outer source or an inner source of flatten has sent END
\* with an error and the call has returned, a sink that has not cancelled
\* has got one END, with that error, and nothing after it, and neither the
\* outer source nor an inner source is left live.
C11_FlattenForwardsErrors ==
  LET c == st["consumer"]
  IN (stack = <<>> /\ ~c.cancelled
        /\ \E p \in ProducersOf : st[p].ended /\ st[p].endWith = Err)
       => /\ GotEnd(c) = 1
          /\ c.lastEnd = Err
          /\ ~c.late
          /\ \A q \in ProducersOf : ~Live(st[q])

\* the positions of the items of fromIter that pass filter once mapped
Passing ==
  {k \in DOMAIN st["fromIter"].iter :
     Holds(st["filter"].condition, Apply(st["map"].f, st["fromIter"].iter[k]))}

\* the position of the n-th item that passes
NthPassing(n) == CHOOSE k \in Passing : Cardinality({j \in Passing : j <= k}) = n

\* the first n items that pass, mapped
FirstPassing(n) ==
  [i \in 1..n |-> Apply(st["map"].f, st["fromIter"].iter[NthPassing(i)])]

\* C12: with n >= 1 and at least n items of the iterable passing the filter
\* once mapped, forEach gets a prefix of the first n of them at any moment;
\* fromIter is not cancelled twice; when the forEach call has returned,
\* forEach has got exactly those n items and one END and nothing after it,
\* and fromIter has been cancelled and has produced nothing past the n-th
\* passing item.
C12_PipeTakesFirstPassing ==
  LET n == st["take"].max
  IN (n >= 1 /\ Cardinality(Passing) >= n) =>
       /\ IsPrefix(DataOf("forEach"), FirstPassing(n))
       /\ Count("forEach", "sink", END) <= 1
       /\ NothingAfterEnd("forEach")
       /\ ~(At("fromIter", "talkback", "start") /\ Top.t = END /\ st["fromIter"].completed)
       /\ (st["forEach"].called /\ stack = <<>>) =>
            /\ DataOf("forEach") = FirstPassing(n)
            /\ Count("forEach", "sink", END) = 1
            /\ st["fromIter"].completed
            /\ st["fromIter"].pos = NthPassing(n)

\* map(x => x * 2), filter(x => x % 4 === 0), take(2) over [1 .. 8] was
\* drained: 4 and 8 were delivered and fromIter stopped after its 4th item
C12_Witness ==
  /\ st["forEach"].called
  /\ stack = <<>>
  /\ st["take"].max = 2
  /\ st["fromIter"].iter = Range(8)
  /\ DataOf("forEach") = <<4, 8>>
  /\ st["fromIter"].pos = 4

\* what scan makes of the items q, starting from acc; started tells whether
\* acc is an accumulator already (a seed, or the items folded so far)
RECURSIVE Scanned(_, _, _, _)
Scanned(reducer, started, acc, q) ==
  IF q = <<>> THEN <<>>
  ELSE LET next == IF started THEN Reduce(reducer, acc, Head(q)) ELSE Head(q)
       IN <<next>> \o Scanned(reducer, TRUE, next, Tail(q))

\* C13: every invocation of the source that scan returns folds on its own:
\* each forEach on it gets a prefix of the fold of the iterable that starts
\* from the seed, or from the first item (forwarded as it is) without a
\* seed, and the whole fold once its call has returned.
C13_ScanFoldsPerChannel ==
  LET s == st["scan"]
      fold == Scanned(s.reducer, s.seed # Undef, s.seed, st["fromIter"].iter)
  IN \A f \in {n \in DOMAIN st : st[n].kind = "forEach"} :
       /\ IsPrefix(DataOf(f), fold)
       /\ (st[f].called /\ stack = <<>>) => DataOf(f) = fold

\* C14: when the call merge()(0, sink) of a merge of no sources has
\* returned, the sink has got START once, and neither DATA nor END.
C14_EmptyMergeGreets ==
  LET c == st["consumer"]
  IN (Len(st["merge"].sources) = 0 /\ c.called /\ stack = <<>>) =>
       /\ GotStart(c) = 1
       /\ GotData(c) = 0
       /\ GotEnd(c) = 0

\* where in trace consumer c cancelled (0: nowhere)
CancelAt(c) ==
  LET at == {k \in 1..Len(trace) : trace[k].node = c /\ trace[k].fn = "cancel"}
  IN IF at = {} THEN 0 ELSE CHOOSE k \in at : \A j \in at : k <= j

\* consumer c was attached when trace[k] happened
AttachedAt(c, k) ==
  /\ StartAt(c) # 0 /\ StartAt(c) < k
  /\ CancelAt(c) = 0 \/ CancelAt(c) > k

\* the pushes of DATA into the subject, as places in trace
Pushes == {k \in 1..Len(trace) : trace[k].fn = "push" /\ trace[k].t = DATA}

\* how often consumer c was handed the DATA pushed at trace[k]
Deliveries(c, k) ==
  Cardinality({j \in 1..Len(trace) :
                 /\ trace[j].node = c /\ trace[j].fn = "sink"
                 /\ trace[j].t = DATA /\ trace[j].d = trace[k].d})

\* C15: a DATA pushed into a subject is handed to no sink that was not
\* attached when it was pushed (none that attached later, none that had
\* cancelled) and at most once to a sink that was, exactly once when the
\* push has returned; so a push without sinks is dropped, and sinks that
\* attach after the others cancelled receive what is pushed from then on.
C15_SubjectDeliversToAttached ==
  \A c \in ConsumersOf : \A k \in Pushes :
    /\ Deliveries(c, k) <= (IF AttachedAt(c, k) THEN 1 ELSE 0)
    /\ (stack = <<>> /\ AttachedAt(c, k)) => Deliveries(c, k) = 1

\* a DATA was pushed before any sink attached and was dropped; consumer1
\* attached and cancelled; consumer2 attached after that and got the
\* second DATA only
C15_Witness ==
  /\ stack = <<>>
  /\ "consumer2" \in DOMAIN st
  /\ trace # <<>> /\ trace[1].fn = "push" /\ trace[1].t = DATA
  /\ CancelAt("consumer1") # 0
  /\ StartAt("consumer2") > CancelAt("consumer1")
  /\ GotData(st["consumer1"]) = 0
  /\ DataOf("consumer2") = <<2>>

\* the innermost call is a PULL of the talkback of node n
PullOf(stk, n) ==
  /\ stk # <<>>
  /\ Head(stk).node = n /\ Head(stk).fn = "talkback"
  /\ Head(stk).pc = "start" /\ Head(stk).t = DATA

\* C16: sample answers a DATA of the listenable with one PULL of the pull
\* source and nothing else, and a DATA of the pull source with that DATA to
\* its sink; the pull source is pulled and the sink is handed DATA in no
\* other way.
C16_SamplePullsOncePerData ==
  [][/\ (DataFor(stack, "sample") /\ Top.port = 0) =>
          stack' = <<Frame("talkback", Callable("producer2", 0), DATA, Undef)>> \o Tail(stack)
     /\ (DataFor(stack, "sample") /\ Top.port = 1) =>
          stack' = <<Frame("sink", Callable("consumer", 0), DATA, Top.d)>> \o Tail(stack)
     /\ (PullOf(stack', "producer2") /\ stack' # stack) =>
          (DataFor(stack, "sample") /\ Top.port = 0)
     /\ (DataFor(stack', "consumer") /\ stack' # stack) =>
          (DataFor(stack, "sample") /\ Top.port = 1
           /\ Top.d = st["producer2"].base + st["producer2"].sent)
    ]_vars

\* both sources have sent two DATA and the sink has got the second DATA of
\* the pull source
C16_Witness ==
  /\ stack = <<>>
  /\ st["producer1"].sent >= 2
  /\ st["producer2"].sent >= 2
  /\ GotData(st["consumer"]) >= 2
  /\ st["consumer"].last = st["producer2"].base + 2

\* C17: sampleWhen answers a DATA of the listenable with no call at all, and
\* a DATA of the sampler with nothing if the listenable has sent no DATA yet
\* and otherwise with one DATA to its sink that carries the latest DATA of
\* the listenable; its sink is handed DATA in no other way.
C17_SampleWhenEmitsLatest ==
  [][/\ (DataFor(stack, "sampleWhen") /\ Top.port = 0) => stack' = Tail(stack)
     /\ (DataFor(stack, "sampleWhen") /\ Top.port = 1) =>
          stack' = IF st["producer1"].sent = 0
                   THEN Tail(stack)
                   ELSE <<Frame("sink", Callable("consumer", 0), DATA, Latest("producer1"))>>
                          \o Tail(stack)
     /\ (DataFor(stack', "consumer") /\ stack' # stack) =>
          (DataFor(stack, "sampleWhen") /\ Top.port = 1)
    ]_vars

\* the sampler sent a DATA before the listenable had sent any, and another
\* one after the second DATA of the listenable, which the sink has got
C17_Witness ==
  /\ stack = <<>>
  /\ st["producer2"].sent = 2
  /\ st["producer1"].sent = 2
  /\ GotData(st["consumer"]) = 1
  /\ st["consumer"].last = st["producer1"].base + 2

\* the inner sources of flatten, and those that were started and have neither
\* sent END nor been sent END
InnerNames == ProducersOf \ {"producer1"}
ActiveInners == {p \in InnerNames : Live(st[p])}

\* the place of producer p in ProducerNames: inner sources start in this order
NameIndex(p) == CHOOSE i \in DOMAIN ProducerNames : ProducerNames[i] = p

\* the innermost call is a fresh call of the talkback of node n
TalkbackOf(stk, n) ==
  /\ stk # <<>>
  /\ Head(stk).node = n /\ Head(stk).fn = "talkback" /\ Head(stk).pc = "start"

\* C18: flatten never has two active inner sources; an outer DATA that comes
\* while an inner source is active makes flatten send END to that inner
\* source, the new one not being started yet; a PULL or END from the sink
\* goes to the active inner source; and no talkback call ever reaches an inner
\* source once a later one has been started.
C18_FlattenHasOneInner ==
  [][/\ Cardinality(ActiveInners') <= 1
     /\ \A p \in ActiveInners :
          /\ (At("flatten", "sink", "start") /\ Top.port = OuterPort /\ Top.t = DATA) =>
               /\ Head(stack') = Frame("talkback", Callable(p, 0), END, Undef)
               /\ ~st'[Top.d.node].started
          /\ (At("flatten", "talkback", "start") /\ Top.t = DATA) =>
               stack' = <<Frame("talkback", Callable(p, 0), DATA, Top.d)>> \o Tail(stack)
          /\ (At("flatten", "talkback", "start") /\ Top.t = END) =>
               Head(stack') = Frame("talkback", Callable(p, 0), END, Undef)
     /\ \A q \in InnerNames :
          (stack' # stack /\ TalkbackOf(stack', q)) =>
            \A r \in InnerNames : st[r].started => NameIndex(r) <= NameIndex(q)
    ]_vars

\* the first inner source was replaced while active, and a PULL of the sink
\* reaches the second
C18_Witness ==
  /\ "producer3" \in DOMAIN st
  /\ st["producer2"].cancelled /\ ~st["producer2"].ended
  /\ Live(st["producer3"])
  /\ Len(stack) = 1
  /\ PullOf(stack, "producer3")

\* no source in state has sent END with an error
ErrorFree(state) == \A p \in ProducersOf : state[p].endWith # Err

\* the innermost call hands an END to node n
EndFor(stk, n) ==
  /\ stk # <<>>
  /\ Head(stk).node = n /\ Head(stk).fn = "sink"
  /\ Head(stk).pc = "start" /\ Head(stk).t = END

\* C19: flatten answers an END without error of its inner source with one
\* PULL of the outer source if the outer source has not ended and with END to
\* its sink if it has; an END without error of the outer source while an
\* inner source is active sends nothing; and as long as no source has ended
\* with an error, the sink is handed END only when it has got none, the outer
\* source has ended and no inner source is active, and has got one END
\* whenever, between calls, that is so and it has not cancelled.
C19_FlattenEndsAfterInner ==
  [][/\ (EndFor(stack, "flatten") /\ Top.port = InnerPort /\ Top.d = Undef) =>
          stack' = IF st["producer1"].ended
                   THEN <<Frame("sink", Callable("consumer", 0), END, Undef)>> \o Tail(stack)
                   ELSE <<Frame("talkback", Callable("producer1", 0), DATA, Undef)>>
                          \o Tail(stack)
     /\ (EndFor(stack, "flatten") /\ Top.port = OuterPort /\ Top.d = Undef
           /\ ActiveInners # {}) => stack' = Tail(stack)
     /\ (ErrorFree(st') /\ stack' # stack /\ EndFor(stack', "consumer")) =>
          /\ GotEnd(st["consumer"]) = 0
          /\ st["producer1"].ended
          /\ ActiveInners = {}
     /\ (ErrorFree(st') /\ stack' = <<>> /\ st'["producer1"].ended /\ ActiveInners' = {}
           /\ ~st'["consumer"].cancelled) =>
          GotEnd(st'["consumer"]) = 1
    ]_vars

\* how many calls of loop() of fromIter are on the call stack
RECURSIVE LoopDepth(_)
LoopDepth(stk) ==
  IF stk = <<>> THEN 0
  ELSE (IF Head(stk).node = "fromIter" /\ Head(stk).pc \in {"while", "after"} THEN 1 ELSE 0)
         + LoopDepth(Tail(stk))

\* the innermost call hands a message to node n
MessageFor(stk, n) ==
  /\ stk # <<>>
  /\ Head(stk).node = n /\ Head(stk).fn = "sink" /\ Head(stk).pc = "start"

\* the sink of fromIter has been handed END, or has sent END
PullerDone == GotEnd(st["puller"]) > 0 \/ st["puller"].cancelled

\* C20: the call stack never holds two calls of fromIter's loop; a PULL that
\* comes while the loop runs returns without a call, and the loop does not
\* finish with that PULL unanswered unless the sink has been handed END or
\* has sent END; and once the sink has been handed END or has sent END, a
\* PULL returns without a call, the sink is handed nothing more and the
\* iterator is not advanced.
C20_FromIterLoopIsNotNested ==
  [][/\ LoopDepth(stack') <= 1
     /\ (PullOf(stack, "fromIter") /\ LoopDepth(stack) = 1) => stack' = Tail(stack)
     /\ (PullOf(stack, "fromIter") /\ LoopDepth(stack) = 1 /\ ~PullerDone) =>
          st'["fromIter"].got1
     /\ (At("fromIter", "talkback", "after") /\ ~PullerDone) => ~st["fromIter"].got1
     /\ PullerDone =>
          /\ PullOf(stack, "fromIter") => stack' = Tail(stack)
          /\ ~(stack' # stack /\ MessageFor(stack', "puller"))
          /\ st'["fromIter"].pos = st["fromIter"].pos
    ]_vars

\* the sink pulled once between messages and then only inside callbacks: the
\* loop that this PULL started has handed it two DATA and END, and inside the
\* END callback the sink pulls once more
C20_Witness ==
  /\ Len(stack) = 3
  /\ PullOf(stack, "fromIter")
  /\ LoopDepth(stack) = 1
  /\ GotData(st["puller"]) = 2
  /\ GotEnd(st["puller"]) = 1
  /\ st["puller"].calls = 4
  /\ st["puller"].idle = 1
  /\ ~st["puller"].cancelled

\* C21: combine never calls the talkback of a source that has sent END: every
\* PULL or END that combine's talkback passes on goes to a source that has
\* not ended.
C21_CombineSparesEndedSources ==
  [][\A p \in ProducersOf :
       (stack' # stack /\ TalkbackOf(stack', p)) => ~st[p].ended
    ]_vars

\* C22: a sink of share that has sent END through its talkback is handed
\* nothing more, not even the message share is handing round when the END is
\* sent inside the handler of another sink; and the sinks that stay attached
\* get everything the upstream sent since they were greeted, once each.
C22_ShareSparesCancelledSinks ==
  /\ [][\A c \in ConsumersOf :
          (stack' # stack /\ MessageFor(stack', c)) => ~st[c].cancelled]_vars
  /\ []ShareDeliversEverythingSince

\* C23: a sink of a subject that was handed a pushed END is handed nothing
\* after it, whatever is pushed later.
C23_SubjectSilentAfterEnd == \A c \in ConsumersOf : ~st[c].late

====
